---- MODULE Spec2Model ----
(***************************************************************************)
(* Model of the tikwordbe back end.                                        *)
(*                                                                         *)
(*   SpecStream : the Stream Registry (services/streamManager.ts) driven   *)
(*                by POST /analyze/stream (routes/analyzeStream.ts), for   *)
(*                one fingerprint; streams of other fingerprints appear    *)
(*                as inputs of the overflow eviction.                      *)
(*   SpecJobs   : the job queue, POST /search, the background worker and   *)
(*                the job pipeline, for one fingerprint and a store whose  *)
(*                writes may throw.                                        *)
(*   SpecBacklog: the background worker started on a store that holds      *)
(*                more queued jobs than it may run at once.                *)
(*   SpecPaywall: aiPaywallMiddleware (middleware/paywall.ts) with the     *)
(*                subscription check (services/revenueCat.ts) and the      *)
(*                usage table (db/aiPaywall.ts), for one user.             *)
(*   SpecWordIndex: addVideoToWordIndex (db/wordIndex) run by several      *)
(*                jobs against one PostgreSQL table, each call in its own  *)
(*                READ COMMITTED transaction.                              *)
(*   SpecPopulation: the number of streams the Stream Registry holds, by   *)
(*                status, while streams of many fingerprints are created,  *)
(*                finish and are cleaned up.                               *)
(*   SpecSave   : POST /analyze/stream around the Analysis Cache           *)
(*                (services/streamCache.ts, db/sentenceAnalyses.ts): the   *)
(*                clients of one fingerprint that find the record, join    *)
(*                the one stream of the fingerprint or store its result.   *)
(*   SpecScratch: the scratch files of the candidates of one job           *)
(*                (services/jobProcessor.ts, audioDownload.ts, whisper.ts). *)
(*   SpecBoundary: detectSentenceBoundary (services/sentenceDetector.ts)   *)
(*                applied to bounded caption lists.                        *)
(*   SpecNormalize: normalizeQuery (utils/normalize) applied to a query    *)
(*                and again to the canonical string it returned.           *)
(*   SpecCacheKey: generateStreamCacheKey (services/streamCache.ts) and     *)
(*                generateCacheKey (services/sentenceAnalysis.ts) applied  *)
(*                to two analysis requests.                                *)
(*   SpecUpstream: one upstream AI call (services/claude.ts), made by       *)
(*                callClaudeAPIWithRetry or by                             *)
(*                analyzeSentenceWithClaudeStream, whose attempts fail.    *)
(*   SpecEviction: createStream (services/streamManager.ts) called on a     *)
(*                full registry, whose streams are listed with status,     *)
(*                subscribers and creation time.                           *)
(*   SpecStop   : SpecBacklog with stopBackgroundWorker and restarts.        *)
(*   SpecTimeout: the candidate loop of processJob                          *)
(*                (services/jobProcessor.ts) with the time elapsed since   *)
(*                the job started and the 15-minute limit.                 *)
(*   SpecCandidates: the SEARCHING phase of processJob                      *)
(*                (services/jobProcessor.ts) with searchVideosWithAdFilters*)
(*                (services/youtube.ts) and the lists the catalog returns. *)
(*   SpecChunks : transcribeAudio (services/whisper.ts) on an audio file of  *)
(*                up to MaxAudioChunks chunks.                             *)
(*   SpecMatch  : findMatchingSegment (services/sentenceDetector.ts)        *)
(*                applied to bounded caption lists and queries.            *)
(*   SpecArtificial : generateArtificialChunks (services/streamCache.ts)     *)
(*                applied to texts with one breaking character.            *)
(*   SpecAnalyze : analyzeSentence (services/sentenceAnalysis.ts), the     *)
(*                non-streaming /analyze, called concurrently for one      *)
(*                fingerprint.                                             *)
(***************************************************************************)
EXTENDS Integers, Sequences, FiniteSets, Bags, TLC

\* ---- bounds of the model ------------------------------------------------
\* stream objects ever created for the fingerprint
MaxStreams == 3
\* /analyze/stream requests (each brings one connection, one subscriber id)
MaxSubs == 3
\* text deltas one upstream call emits
MaxChunks == 2

\* addVideoToWordIndex calls (SpecWordIndex)
MaxIndexCalls == 3
\* distinct words of the captions
NumWords == 2
\* distinct segments (videoId, startTime, endTime)
NumSegments == 3
\* words one call is given
MaxListLen == 2

\* streams the registry may hold in the model (SpecPopulation)
MaxPopulation == 102
\* completed streams that have subscribers, and streams in status error
MaxBusy == 1
MaxErrored == 1

\* POST /analyze/stream requests for the fingerprint (SpecSave)
MaxClients == 3

\* candidate videos one job works through (SpecScratch)
MaxScratchVideos == 2
\* chunk files ffmpeg cuts one audio file into
MaxChunkFiles == 11

\* caption segments handed to detectSentenceBoundary (SpecBoundary)
MaxSegments == 2
\* largest start time and largest duration of a caption segment, in seconds
MaxStart == 1
MaxDuration == 3

\* length of the pattern of streams a full registry repeats (SpecEviction)
MaxMotif == 2

\* candidate videos of the job of SpecTimeout
MaxTimedVideos == 3

\* chunks chunkAudio cuts the audio of SpecChunks into
MaxAudioChunks == 12

\* characters of the text handed to generateArtificialChunks (SpecArtificial)
MaxTextLen == 150

\* concurrent analyzeSentence calls for one fingerprint (SpecAnalyze)
MaxAnalyzeCalls == 3

\* caption segments handed to findMatchingSegment (SpecMatch)
MaxMatchSegments == 4

\* queued jobs the job store holds when the worker starts (SpecBacklog)
NumBacklog == 6
\* POST /search requests (SpecJobs)
MaxReqs == 2
\* candidate videos the catalog returns for one job
MaxVideos == 2
\* workerLoop continuations pending at one time
MaxLoops == 2
\* backlog jobs whose catalog search comes back while the run is observed
NumReturning == 3

\* requests of the user that pass the paywall middleware (SpecPaywall)
MaxPaywallReqs == 4
\* quota windows of the user that run out
MaxExpiries == 1

\* ---- program constants --------------------------------------------------
FREE_REQUESTS_LIMIT == 3
MAX_ACTIVE_STREAMS == 100
MAX_CONCURRENT_JOBS == 5
MAX_QUERY_LENGTH == 200
maxRetries == 3
maxChunks == 10
chunkSize == 100
\* services/claude.ts callClaudeAPIWithRetry: default of maxRetries, and baseDelay
claudeMaxRetries == 3
\* services/jobProcessor.ts processJob: 15 * 60 * 1000
JOB_TIMEOUT_MS == 900000
\* getSearchStrategies returns 4 queries; searchVideosWithAdFilters has 5 filters
\* and is called with targetResults 5; processJob stops at 10 videos
NumStrategies == 4
NumFilters == 5
targetResults == 5
EnoughVideos == 10
baseDelay == 1000

VARIABLES
  streams,        \* heap of ActiveStream objects, by creation number
  registry,       \* StreamManager.streams.get(cacheKey): 0 = no entry
  calls,          \* apiCallPromise / upstream call of each stream object
  subs,           \* one record per request: connection, subscriber, replay task
  cleanupTimers,  \* pending scheduleCleanup timers (keyed by cacheKey only)
  errorTimers,    \* pending errorStream timers (keyed by cacheKey only)
  analysisStored, \* a sentence_analyses row exists for the fingerprint
  jobs,           \* table job_queue, by order of creation
  segments,       \* table video_examples, by hash (0 = no row)
  reqs,           \* POST /search requests
  isRunning,      \* backgroundWorker: isRunning
  scheduledLoops, \* pending setTimeout / setImmediate calls of workerLoop
  awaitingLoops,  \* workerLoop invocations awaiting getQueuedJobs: their results
  runningJobs,    \* backgroundWorker: keys of the map runningJobs
  tasks,          \* the processJob run of each hash
  usage,          \* table ai_paywall_usage: the row of the user
  subscriptionCache, \* revenueCat: the entry of the user in subscriptionCache
  preqs,          \* requests passing aiPaywallMiddleware
  epoch,          \* how many quota windows of the user have run out
  lastAnswer,     \* the provider answer checkSubscription handled last
  overlap,        \* two paywall requests of the user have been in flight at once
  freeAllowed,    \* non-subscriber requests let through since a window ran out
  wordIndex,      \* table word_index: committed video_examples of each word
  wcalls,         \* the addVideoToWordIndex calls, each with its transaction
  indexOverlap,   \* two addVideoToWordIndex calls have been in flight at once
  population,     \* StreamManager.streams: how many streams of which kind it holds
  analyses,       \* table sentence_analyses: access_count of the rows of the hash
  soleStream,     \* the stream of the fingerprint: status and fullResponse
  clients,        \* POST /analyze/stream requests for the fingerprint
  temp,           \* the scratch files in temp/, by video
  candidate,      \* processJob: the candidate it is at and the step inside it
  boundaryCall,   \* one call of detectSentenceBoundary: arguments and result
  normalizeCall,  \* normalizeQuery applied to a query and then to its own result
  keyCalls,       \* the cache keys computed so far, with their requests
  aiCall,         \* one call of the upstream AI: attempts, errors and waits
  evictCall,      \* one createStream call on a full registry: the map before and after
  timedJob,       \* one processJob run with the time elapsed since it started
  searchRun,      \* the SEARCHING phase of one job: strategies, filters, videos collected
  transcription,  \* one transcribeAudio call: the chunks transcribed so far
  matchCall,      \* one findMatchingSegment call: captions, query and index returned
  chunking,       \* one generateArtificialChunks call: the text and the chunks returned
  analysisRows,   \* rows of sentence_analyses for the one fingerprint of SpecAnalyze: their access counts
  analyzeCalls    \* the analyzeSentence calls of SpecAnalyze

svars == <<streams, registry, calls, subs, cleanupTimers, errorTimers, analysisStored>>

jvars == <<jobs, segments, reqs, isRunning, scheduledLoops, awaitingLoops,
           runningJobs, tasks>>

pvars == <<usage, subscriptionCache, preqs, epoch, lastAnswer, overlap, freeAllowed>>

\* the state of the parts added after the stream registry and the job queue
wvars == <<wordIndex, wcalls, indexOverlap>>

rvars == <<population>>

avars == <<analyses, soleStream, clients>>

fvars == <<temp, candidate>>

bvars == <<boundaryCall>>

nvars == <<normalizeCall>>

kvars == <<keyCalls>>

uvars == <<aiCall>>

evars == <<evictCall>>

tvars == <<timedJob>>

cvars == <<searchRun>>

xvars == <<transcription>>

mvars == <<matchCall>>

gvars == <<chunking>>

zvars == <<analysisRows, analyzeCalls>>

ovars == <<pvars, wvars, rvars, avars, fvars, bvars, nvars, kvars, uvars, evars, tvars, cvars, xvars, mvars, gvars, zvars>>

\* what the steps of one part leave alone
besidesPaywall == <<svars, jvars, wvars, rvars, avars, fvars, bvars, nvars, kvars, uvars, evars, tvars, cvars, xvars, mvars, gvars, zvars>>
besidesWordIndex == <<svars, jvars, pvars, rvars, avars, fvars, bvars, nvars, kvars, uvars, evars, tvars, cvars, xvars, mvars, gvars, zvars>>
besidesPopulation == <<svars, jvars, pvars, wvars, avars, fvars, bvars, nvars, kvars, uvars, evars, tvars, cvars, xvars, mvars, gvars, zvars>>
besidesSave == <<svars, jvars, pvars, wvars, rvars, fvars, bvars, nvars, kvars, uvars, evars, tvars, cvars, xvars, mvars, gvars, zvars>>
besidesScratch == <<svars, jvars, pvars, wvars, rvars, avars, bvars, nvars, kvars, uvars, evars, tvars, cvars, xvars, mvars, gvars, zvars>>
besidesBoundary == <<svars, jvars, pvars, wvars, rvars, avars, fvars, nvars, kvars, uvars, evars, tvars, cvars, xvars, mvars, gvars, zvars>>
besidesNormalize == <<svars, jvars, pvars, wvars, rvars, avars, fvars, bvars, kvars, uvars, evars, tvars, cvars, xvars, mvars, gvars, zvars>>
besidesCacheKey == <<svars, jvars, pvars, wvars, rvars, avars, fvars, bvars, nvars, uvars, evars, tvars, cvars, xvars, mvars, gvars, zvars>>
besidesUpstream == <<svars, jvars, pvars, wvars, rvars, avars, fvars, bvars, nvars, kvars, evars, tvars, cvars, xvars, mvars, gvars, zvars>>
besidesEviction == <<svars, jvars, pvars, wvars, rvars, avars, fvars, bvars, nvars, kvars, uvars, tvars, cvars, xvars, mvars, gvars, zvars>>
besidesTimeout == <<svars, jvars, pvars, wvars, rvars, avars, fvars, bvars, nvars, kvars, uvars, evars, cvars, xvars, mvars, gvars, zvars>>
besidesCandidates == <<svars, jvars, pvars, wvars, rvars, avars, fvars, bvars, nvars, kvars, uvars, evars, tvars, xvars, mvars, gvars, zvars>>
besidesTranscription == <<svars, jvars, pvars, wvars, rvars, avars, fvars, bvars, nvars, kvars, uvars, evars, tvars, cvars, mvars, gvars, zvars>>
besidesMatch == <<svars, jvars, pvars, wvars, rvars, avars, fvars, bvars, nvars, kvars, uvars, evars, tvars, cvars, xvars, gvars, zvars>>
besidesChunking == <<svars, jvars, pvars, wvars, rvars, avars, fvars, bvars, nvars, kvars, uvars, evars, tvars, cvars, xvars, mvars, zvars>>
besidesAnalyze == <<svars, jvars, pvars, wvars, rvars, avars, fvars, bvars, nvars, kvars, uvars, evars, tvars, cvars, xvars, mvars, gvars>>

vars == <<streams, registry, calls, subs, cleanupTimers, errorTimers, analysisStored,
          jobs, segments, reqs, isRunning, scheduledLoops, awaitingLoops,
          runningJobs, tasks,
          usage, subscriptionCache, preqs, epoch, lastAnswer, overlap, freeAllowed,
          wordIndex, wcalls, indexOverlap, population,
          analyses, soleStream, clients,
          temp, candidate,
          boundaryCall,
          normalizeCall,
          keyCalls,
          aiCall,
          evictCall,
          timedJob,
          searchRun,
          transcription,
          matchCall,
          chunking,
          analysisRows, analyzeCalls>>

Gens == 1..MaxStreams
SubIds == 1..MaxSubs

\* ---- small helpers --------------------------------------------------------
Max2(a, b) == IF a >= b THEN a ELSE b

SetToSeq(S) ==
  LET RECURSIVE Build(_, _)
      Build(T, n) == IF T = {} THEN <<>>
                     ELSE IF n \in T THEN <<n>> \o Build(T \ {n}, n + 1)
                     ELSE Build(T, n + 1)
  IN Build(S, 1)

\* ---- the registry state threaded through one handler ----------------------
World == [streams |-> streams, registry |-> registry, subs |-> subs,
          cleanupTimers |-> cleanupTimers, errorTimers |-> errorTimers]

NoStream == [status |-> "unborn", chunks |-> <<>>, subscribers |-> {}]

NoSub == [pc |-> "new", stream |-> 0, isReplaying |-> FALSE,
          ended |-> FALSE, closed |-> FALSE, left |-> FALSE, frames |-> <<>>,
          rpc |-> "none", currentIndex |-> 0, totalChunks |-> 0]

\* res.write(frame) on the connection of request s
Write(w, s, frame) ==
  [w EXCEPT !.subs[s].frames = Append(@, frame)]

\* res.end()
End(w, s) == [w EXCEPT !.subs[s].ended = TRUE]

IsSubscriberConnected(w, s) ==
  /\ w.registry # 0
  /\ s \in w.streams[w.registry].subscribers
  /\ ~w.subs[s].ended

SendCompletionToSubscriber(w, s) ==
  IF w.registry = 0 THEN w
  ELSE IF s \notin w.streams[w.registry].subscribers \/ w.subs[s].isReplaying THEN w
  ELSE End(Write(w, s, <<"done", 0, 0>>), s)

SendErrorToSubscriber(w, s) ==
  IF w.registry = 0 THEN w
  ELSE IF s \notin w.streams[w.registry].subscribers \/ w.subs[s].isReplaying THEN w
  ELSE End(Write(w, s, <<"error", 0, 0>>), s)

\* lines 142-154: leave replay mode, deliver a terminal frame that is due
\* (currentIndex and totalChunks are dead once the task has ended)
ReplayExit(w, s, idx, tot) ==
  LET g  == w.subs[s].stream
      w1 == [w EXCEPT !.subs[s].rpc = "exited",
                      !.subs[s].currentIndex = 0,
                      !.subs[s].totalChunks = 0,
                      !.subs[s].isReplaying =
                          IF s \in w.streams[g].subscribers THEN FALSE ELSE @]
  IN  IF w.streams[g].status = "completed" THEN SendCompletionToSubscriber(w1, s)
      ELSE IF w.streams[g].status = "error" THEN SendErrorToSubscriber(w1, s)
      ELSE w1

\* the task stops at an await ("delay", "wait10") or returns early ("returned");
\* totalChunks is read again only after the await of line 117
ReplaySuspend(w, s, at, idx, tot) ==
  [w EXCEPT !.subs[s].rpc = at,
            !.subs[s].currentIndex = IF at = "returned" THEN 0 ELSE idx,
            !.subs[s].totalChunks = IF at = "delay" THEN tot ELSE 0]

RECURSIVE ReplayInner(_, _, _, _)
RECURSIVE ReplayOuter(_, _, _)

\* lines 93-121: the inner while, entered with currentIndex = idx
ReplayInner(w, s, idx, tot) ==
  LET g == w.subs[s].stream IN
  IF idx < tot THEN
    IF ~IsSubscriberConnected(w, s) THEN ReplaySuspend(w, s, "returned", idx, tot)
    ELSE LET w1 == Write(w, s, <<"chunk", w.streams[g].chunks[idx + 1][1],
                                          w.streams[g].chunks[idx + 1][2]>>)
         IN  IF idx < Len(w.streams[g].chunks) - 1
             THEN ReplaySuspend(w1, s, "delay", idx, tot)
             ELSE ReplayInner(w1, s, idx + 1, tot)
  \* lines 123-139
  ELSE IF idx >= Len(w.streams[g].chunks) THEN
    IF w.streams[g].status \in {"completed", "error"}
    THEN ReplayExit(w, s, idx, tot)
    ELSE ReplaySuspend(w, s, "wait10", idx, tot)
  ELSE ReplayOuter(w, s, idx)

\* lines 88-90: top of the outer while
ReplayOuter(w, s, idx) ==
  ReplayInner(w, s, idx, Len(w.streams[w.subs[s].stream].chunks))

\* lines 72-85
ReplayChunksWithDelay(w, s) ==
  IF w.registry = 0 THEN w
  ELSE IF s \notin w.streams[w.registry].subscribers THEN w
  ELSE ReplayOuter(w, s, 0)

\* subscribe(cacheKey, res)
Subscribe(w, s) ==
  LET g   == w.registry
      has == Len(w.streams[g].chunks) > 0
      w1  == [w EXCEPT !.subs[s].stream = g,
                       !.subs[s].isReplaying = has,
                       !.streams[g].subscribers = @ \cup {s}]
  IN  IF has THEN ReplayChunksWithDelay(w1, s)
      ELSE IF w.streams[g].status = "completed" THEN SendCompletionToSubscriber(w1, s)
      ELSE IF w.streams[g].status = "error" THEN SendErrorToSubscriber(w1, s)
      ELSE w1

\* unsubscribe(cacheKey, subscriberId)
Unsubscribe(w, s) ==
  IF w.registry = 0 THEN w
  ELSE [w EXCEPT !.streams[w.registry].subscribers = @ \ {s}]

\* the broadcast loops of publishChunk / completeStream / errorStream
RECURSIVE Broadcast(_, _, _, _)
Broadcast(w, order, frame, end) ==
  IF order = <<>> THEN w
  ELSE LET s  == Head(order)
           w1 == IF w.subs[s].isReplaying THEN w
                 ELSE IF end THEN End(Write(w, s, frame), s)
                 ELSE Write(w, s, frame)
       IN  Broadcast(w1, Tail(order), frame, end)

\* publishChunk without the isReplaying skip of line 309
PublishChunkNoSkip(w, chunk) ==
  IF w.registry = 0 THEN w
  ELSE LET g  == w.registry
           w1 == [w EXCEPT !.streams[g].chunks = Append(@, chunk)]
           RECURSIVE All(_, _)
           All(x, order) ==
             IF order = <<>> THEN x
             ELSE All(Write(x, Head(order), <<"chunk", chunk[1], chunk[2]>>), Tail(order))
       IN  All(w1, SetToSeq(w.streams[g].subscribers))

PublishChunk(w, chunk) ==
  IF w.registry = 0 THEN w
  ELSE LET g  == w.registry
           w1 == [w EXCEPT !.streams[g].chunks = Append(@, chunk)]
       IN  Broadcast(w1, SetToSeq(w.streams[g].subscribers),
                     <<"chunk", chunk[1], chunk[2]>>, FALSE)

CompleteStream(w) ==
  IF w.registry = 0 THEN w
  ELSE LET g  == w.registry
           w1 == [w EXCEPT !.streams[g].status = "completed"]
           w2 == Broadcast(w1, SetToSeq(w.streams[g].subscribers), <<"done", 0, 0>>, TRUE)
       IN  [w2 EXCEPT !.cleanupTimers = @ + 1]

ErrorStream(w) ==
  IF w.registry = 0 THEN w
  ELSE LET g  == w.registry
           w1 == [w EXCEPT !.streams[g].status = "error"]
           w2 == Broadcast(w1, SetToSeq(w.streams[g].subscribers), <<"error", 0, 0>>, TRUE)
       IN  [w2 EXCEPT !.errorTimers = @ + 1]

\* ---- SpecStream: actions ------------------------------------------------------

SetWorld(w) ==
  /\ streams' = w.streams
  /\ registry' = w.registry
  /\ subs' = w.subs
  /\ cleanupTimers' = w.cleanupTimers
  /\ errorTimers' = w.errorTimers

FreshGens == {g \in Gens : streams[g].status = "unborn"}

\* routes/analyzeStream.ts 138-215 with getOrCreateStream / createStream /
\* startStream / subscribe: a request that misses the cache, up to its await
\* of apiCallPromise.  The continuation of loadStreamCache runs at once; a
\* request that hits the cache never reaches the registry.  Requests are
\* numbered in the order of arrival.
JoinOrCreateStream(s) ==
  /\ subs[s].pc = "new"
  /\ IF s = 1 THEN TRUE ELSE subs[s - 1].pc # "new"
  /\ ~analysisStored
  /\ IF registry # 0
     THEN /\ SetWorld([Subscribe(World, s) EXCEPT
                 !.subs[s].pc = IF streams[registry].status = "active"
                                THEN "finished" ELSE "owner"])
          /\ UNCHANGED calls
     ELSE /\ FreshGens # {}
          /\ LET g  == CHOOSE x \in FreshGens : \A y \in FreshGens : x <= y
                 w1 == [World EXCEPT
                          !.streams[g] = [status |-> "active", chunks |-> <<>>,
                                          subscribers |-> {}],
                          !.registry = g]
             IN  /\ SetWorld([Subscribe(w1, s) EXCEPT !.subs[s].pc = "owner"])
                 /\ calls' = [calls EXCEPT ![g] = [state |-> "running", emitted |-> 0]]
  /\ UNCHANGED analysisStored
  /\ UNCHANGED <<jvars, ovars>>

\* 214-226: the creating request after apiCallPromise settled; saveStreamCache
\* returns null when the response does not parse or the insert fails
SaveAfterStream(s) ==
  /\ subs[s].pc = "owner"
  /\ calls[subs[s].stream].state = "settled"
  /\ \E saved \in BOOLEAN :
       analysisStored' =
         IF /\ streams[subs[s].stream].status = "completed"
            /\ streams[subs[s].stream].chunks # <<>>
         THEN analysisStored \/ saved ELSE analysisStored
  /\ subs' = [subs EXCEPT ![s].pc = "finished"]
  /\ UNCHANGED <<streams, registry, calls, cleanupTimers, errorTimers>>
  /\ UNCHANGED <<jvars, ovars>>

\* res.on('close'): after res.end(), or because the client went away
\* Once the client is gone nothing is written to the connection any more
\* (a pending replay returns at its next check), so its record is cleared.
OnClose(s) ==
  /\ subs[s].pc \in {"owner", "finished"}
  /\ ~subs[s].closed
  /\ SetWorld(Unsubscribe([World EXCEPT !.subs[s] =
          IF subs[s].ended THEN [@ EXCEPT !.closed = TRUE]
          ELSE [NoSub EXCEPT !.pc = subs[s].pc, !.stream = subs[s].stream,
                             !.closed = TRUE, !.left = TRUE]], s))
  /\ UNCHANGED <<calls, analysisStored>>
  /\ UNCHANGED <<jvars, ovars>>

\* replayChunksWithDelay resumes after the await of line 117
ReplayAfterDelay(s) ==
  /\ subs[s].rpc = "delay"
  /\ SetWorld(ReplayInner(World, s, subs[s].currentIndex + 1, subs[s].totalChunks))
  /\ UNCHANGED <<calls, analysisStored>>
  /\ UNCHANGED <<jvars, ovars>>

\* replayChunksWithDelay resumes after the await of line 132
ReplayAfterWait(s) ==
  /\ subs[s].rpc = "wait10"
  /\ LET g   == subs[s].stream
         idx == subs[s].currentIndex
     IN  IF idx >= Len(streams[g].chunks) /\ streams[g].status = "active"
         THEN SetWorld(ReplayExit(World, s, idx, subs[s].totalChunks))
         ELSE SetWorld(ReplayOuter(World, s, idx))
  /\ UNCHANGED <<calls, analysisStored>>
  /\ UNCHANGED <<jvars, ovars>>

\* startStream 432-435: the upstream call delivers a text delta
UpstreamDelta(g) ==
  /\ calls[g].state = "running"
  /\ calls[g].emitted < MaxChunks
  /\ SetWorld(PublishChunk(World, <<g, calls[g].emitted + 1>>))
  /\ calls' = [calls EXCEPT ![g].emitted = @ + 1]
  /\ UNCHANGED analysisStored
  /\ UNCHANGED <<jvars, ovars>>

\* startStream 440-441: the upstream call returned
UpstreamReturns(g) ==
  /\ calls[g].state = "running"
  /\ SetWorld(CompleteStream(World))
  /\ calls' = [calls EXCEPT ![g].state = "settled"]
  /\ UNCHANGED analysisStored
  /\ UNCHANGED <<jvars, ovars>>

\* startStream 442-445: the upstream call threw
UpstreamThrows(g) ==
  /\ calls[g].state = "running"
  /\ SetWorld(ErrorStream(World))
  /\ calls' = [calls EXCEPT ![g].state = "settled"]
  /\ UNCHANGED analysisStored
  /\ UNCHANGED <<jvars, ovars>>

\* scheduleCleanup 472-480
CleanupTimerFires ==
  /\ cleanupTimers > 0
  /\ cleanupTimers' = cleanupTimers - 1
  /\ registry' = IF registry # 0 /\ streams[registry].subscribers = {}
                 THEN 0 ELSE registry
  /\ UNCHANGED <<streams, calls, subs, errorTimers, analysisStored>>
  /\ UNCHANGED <<jvars, ovars>>

\* errorStream 405-408
ErrorTimerFires ==
  /\ errorTimers > 0
  /\ errorTimers' = errorTimers - 1
  /\ registry' = 0
  /\ UNCHANGED <<streams, calls, subs, cleanupTimers, analysisStored>>
  /\ UNCHANGED <<jvars, ovars>>

\* cleanupOldestCompletedStreams 483-495, seen from the tracked fingerprint:
\* the registry also holds idle completed streams of other fingerprints,
\* `older` of them created before the tracked stream and `newer` after it
EvictsTracked(older, newer) ==
  /\ registry # 0
  /\ streams[registry].status = "completed"
  /\ streams[registry].subscribers = {}
  /\ older < Max2(1, (older + newer + 1) \div 10)

OtherStreamCounts == {0, MAX_ACTIVE_STREAMS - 1, MAX_ACTIVE_STREAMS}
OtherIdleCounts == {0, 1}

\* createStream 208-213 called for another fingerprint while `others` streams
\* of other fingerprints are registered
CreateStreamOther(others, older, newer) ==
  /\ others + (IF registry # 0 THEN 1 ELSE 0) >= MAX_ACTIVE_STREAMS
  /\ older + newer <= others
  /\ EvictsTracked(older, newer)
  /\ registry' = 0
  /\ UNCHANGED <<streams, calls, subs, cleanupTimers, errorTimers, analysisStored>>
  /\ UNCHANGED <<jvars, ovars>>

\* ---- job queue: data --------------------------------------------------------
JobIds == 1..NumBacklog
ReqIds == 1..MaxReqs

Whitespace == {" "}
Punctuation == {".", ",", "!", "?", ";", ":"}

\* the raw query strings of the requests, as sequences of characters
RawQueries == {<<"a">>, <<" ", "A">>, <<" ">>}

ToLowerCase(c) == IF c = "A" THEN "a" ELSE IF c = "B" THEN "b" ELSE c

\* the positions of q that hold no whitespace
Inked(q) == {k \in 1..Len(q) : q[k] \notin Whitespace}

TrimStart(q) ==
  IF Inked(q) = {} THEN <<>>
  ELSE SubSeq(q, CHOOSE k \in Inked(q) : \A j \in Inked(q) : k <= j, Len(q))

TrimEnd(q) ==
  IF Inked(q) = {} THEN <<>>
  ELSE SubSeq(q, 1, CHOOSE k \in Inked(q) : \A j \in Inked(q) : k >= j)

\* String.prototype.toLowerCase: character by character, except that the
\* capital I with dot above (U+0130, written "I_dot") becomes two code units,
\* i and the combining dot above (U+0307, written "dot_above")
RECURSIVE ToLowerCaseString(_)
ToLowerCaseString(s) ==
  IF s = <<>> THEN <<>>
  ELSE IF Len(s) = 1
    THEN IF s[1] = "I_dot" THEN <<"i", "dot_above">> ELSE <<ToLowerCase(s[1])>>
  ELSE ToLowerCaseString(SubSeq(s, 1, Len(s) \div 2))
       \o ToLowerCaseString(SubSeq(s, Len(s) \div 2 + 1, Len(s)))

\* utils/normalize.ts normalizeQuery; ok = FALSE stands for the thrown Error
NormalizeQuery(query) ==
  LET trimmed    == TrimEnd(TrimStart(query))
      normalized == ToLowerCaseString(trimmed)
  IN  IF Len(trimmed) > MAX_QUERY_LENGTH \/ Len(trimmed) = 0
      THEN [ok |-> FALSE, normalized |-> <<>>, type |-> "none"]
      ELSE [ok |-> TRUE, normalized |-> normalized,
            type |-> IF \E k \in 1..Len(normalized) :
                          normalized[k] \in Whitespace \cup Punctuation
                     THEN "sentence" ELSE "word"]

CharCode(c) ==
  IF c = "a" THEN 1 ELSE IF c = "b" THEN 2 ELSE IF c = " " THEN 3
  ELSE IF c = "A" THEN 4 ELSE IF c = "B" THEN 5 ELSE 6

\* utils/hash generateHash: a digest, taken to be free of collisions
RECURSIVE GenerateHash(_)
GenerateHash(normalized) ==
  IF normalized = <<>> THEN 0
  ELSE CharCode(Head(normalized)) + 8 * GenerateHash(Tail(normalized))

\* the hash column of the rows the model can hold
Hashes ==
  (1..NumBacklog) \cup
  {GenerateHash(NormalizeQuery(q).normalized) : q \in {x \in RawQueries : NormalizeQuery(x).ok}}

NoResult == [videoId |-> 0, startTime |-> 0, endTime |-> 0, caption |-> 0]
NoJob == [hash |-> 0, status |-> "none", currentVideoId |-> 0,
          result |-> NoResult, error |-> ""]
NoResponse == [code |-> 0, status |-> "", jobId |-> <<"none", 0>>, result |-> NoResult]
NoReq == [pc |-> "new", query |-> <<>>, hash |-> 0, via |-> "", resp |-> NoResponse]
NoTask == [pc |-> "idle", videos |-> 0, i |-> 0]

\* the job queue part before anything happened: empty tables, worker not started
JobsAtRest ==
  /\ segments = [h \in Hashes |-> NoResult]
  /\ reqs = [r \in ReqIds |-> NoReq]
  /\ isRunning = FALSE
  /\ scheduledLoops = 0
  /\ awaitingLoops = EmptyBag
  /\ runningJobs = {}
  /\ tasks = [h \in Hashes |-> NoTask]

PaywallReqIds == 1..MaxPaywallReqs

NoUsage == [count |-> 0, window |-> "none"]
NoEntry == [present |-> FALSE, isActive |-> FALSE, fresh |-> FALSE]
NoPaywallReq == [pc |-> "new", answer |-> "", isActive |-> FALSE, plan |-> "",
                 outcome |-> "", epoch |-> 0]

\* the paywall before any request: no usage row, an empty subscription cache
PaywallAtRest ==
  /\ usage = NoUsage
  /\ subscriptionCache = NoEntry
  /\ preqs = [r \in PaywallReqIds |-> NoPaywallReq]
  /\ epoch = 0
  /\ lastAnswer = "none"
  /\ overlap = FALSE
  /\ freeAllowed = 0

IndexCallIds == 1..MaxIndexCalls
Words == 1..NumWords
\* a segment stands for its (videoId, startTime, endTime)
Segments == 1..NumSegments
WordLists == UNION {[1..n -> Words] : n \in 1..MaxListLen}

\* video_examples of a word without row, and the write set of a transaction
\* that wrote no row of the word (the code never stores an empty array)
NoRow == <<>>
NoIndexCall == [pc |-> "new", words |-> <<>>, segment |-> 0, i |-> 0,
                videoExamples |-> <<>>, writes |-> [w \in Words |-> NoRow]]

\* the word index before any job indexed a caption: an empty table
WordIndexAtRest ==
  /\ wordIndex = [w \in Words |-> NoRow]
  /\ wcalls = [c \in IndexCallIds |-> NoIndexCall]
  /\ indexOverlap = FALSE

\* the parts added after the stream registry and the job queue, before anything
NoPopulation == [active |-> 0, idle |-> 0, busy |-> 0, errored |-> 0]

ClientIds == 1..MaxClients
NoSoleStream == [status |-> "none", fullResponse |-> ""]
NoClient == [pc |-> "new", role |-> "", attempts |-> 0, saveFailed |-> FALSE]

\* the Analysis Cache before any request: no row, no stream, no request
SaveAtRest ==
  /\ analyses = <<>>
  /\ soleStream = NoSoleStream
  /\ clients = [c \in ClientIds |-> NoClient]

ScratchVideoIds == 1..MaxScratchVideos

\* the files of one video in temp/: <videoId>.mp3, <videoId>.vtt, the number of
\* <videoId>_chunk_NNN.mp3 files and the number of those with a .vtt beside
NoFiles == [audio |-> FALSE, vtt |-> FALSE, chunks |-> 0, chunkVtts |-> 0]
NoCandidate == [pc |-> "start", video |-> 0, i |-> 0, processed |-> 0, foundWord |-> FALSE]

\* temp/ before the first job: empty
ScratchAtRest ==
  /\ temp = [v \in ScratchVideoIds |-> NoFiles]
  /\ candidate = NoCandidate

NoBoundaryCall == [pc |-> "none", captions |-> <<>>, matchIndex |-> 0,
                   startTime |-> 0, endTime |-> 0, caption |-> <<>>]

NoNormalized == [ok |-> FALSE, normalized |-> <<>>, type |-> "none"]
NoNormalizeCall == [pc |-> "none", query |-> <<>>, once |-> NoNormalized,
                    twice |-> NoNormalized]

NoAiCall == [kind |-> "none", pc |-> "none", attempt |-> 0, errors |-> <<>>,
             waits |-> <<>>]

NoEvictCall == [pc |-> "none", before |-> <<>>, removed |-> <<>>, after |-> <<>>]

NoTimedJob == [pc |-> "idle", i |-> 0, videos |-> 0, elapsed |-> 0, status |-> "queued",
               error |-> "", overdue |-> FALSE, begun |-> 0, begunInTime |-> 0]

NoSearchRun == [pc |-> "idle", strategy |-> 0, filter |-> 0, seenIds |-> {},
                found |-> <<>>, allVideos |-> <<>>, queriedWhenFull |-> FALSE]

NoTranscription == [pc |-> "idle", chunkPaths |-> 0, i |-> 0, processedVTTs |-> <<>>,
                    foundWord |-> FALSE, foundAt |-> 0]

NoMatchCall == [pc |-> "none", captions |-> <<>>, query |-> <<>>, queryType |-> "",
                index |-> 0]

NoChunking == [pc |-> "none", text |-> <<>>, chunks |-> <<>>]

NoAnalyzeCall == [pc |-> "new", claudeReturned |-> FALSE]

OthersAtRest ==
  /\ PaywallAtRest
  /\ WordIndexAtRest
  /\ population = NoPopulation
  /\ SaveAtRest
  /\ ScratchAtRest
  /\ boundaryCall = NoBoundaryCall
  /\ normalizeCall = NoNormalizeCall
  /\ keyCalls = <<>>
  /\ aiCall = NoAiCall
  /\ evictCall = NoEvictCall
  /\ timedJob = NoTimedJob
  /\ searchRun = NoSearchRun
  /\ transcription = NoTranscription
  /\ matchCall = NoMatchCall
  /\ chunking = NoChunking
  /\ analysisRows = <<>> /\ analyzeCalls = [c \in 1..MaxAnalyzeCalls |-> NoAnalyzeCall]

StreamAtRest ==
  /\ streams = [g \in Gens |-> NoStream]
  /\ registry = 0
  /\ calls = [g \in Gens |-> [state |-> "none", emitted |-> 0]]
  /\ subs = [s \in SubIds |-> NoSub]
  /\ cleanupTimers = 0
  /\ errorTimers = 0
  /\ analysisStored = FALSE

InitStream ==
  /\ StreamAtRest
  /\ JobsAtRest
  /\ OthersAtRest
  /\ jobs = [id \in JobIds |-> NoJob]

NextStream ==
  \/ \E s \in SubIds : JoinOrCreateStream(s)
  \/ \E s \in SubIds : SaveAfterStream(s)
  \/ \E s \in SubIds : OnClose(s)
  \/ \E s \in SubIds : ReplayAfterDelay(s)
  \/ \E s \in SubIds : ReplayAfterWait(s)
  \/ \E g \in Gens : UpstreamDelta(g)
  \/ \E g \in Gens : UpstreamReturns(g)
  \/ \E g \in Gens : UpstreamThrows(g)
  \/ CleanupTimerFires
  \/ ErrorTimerFires
  \/ \E n \in OtherStreamCounts, o \in OtherIdleCounts, y \in OtherIdleCounts :
       CreateStreamOther(n, o, y)

SpecStream == InitStream /\ [][NextStream]_vars

\* ---- SpecStream: properties ------------------------------------------------

IsChunkFrame(f) == f[1] = "chunk"
IsTerminalFrame(f) == f[1] \in {"done", "error"}

\* the chunks written to a connection, in the order of writing
ChunkPayloads(frames) ==
  LET cf == SelectSeq(frames, IsChunkFrame)
  IN  [k \in 1..Len(cf) |-> <<cf[k][2], cf[k][3]>>]

IsPrefix(a, b) == Len(a) <= Len(b) /\ a = SubSeq(b, 1, Len(a))

\* request s subscribed and its client never went away
StaysConnected(s) == subs[s].stream # 0 /\ ~subs[s].left

InFlight == {g \in Gens : calls[g].state = "running"}

\* C1: at any time at most one upstream AI call is in flight for the
\* fingerprint.
AtMostOneUpstreamCall == Cardinality(InFlight) <= 1

FramesArePrefixOfLog ==
  \A s \in SubIds :
    StaysConnected(s) =>
      IsPrefix(ChunkPayloads(subs[s].frames), streams[subs[s].stream].chunks)

GetsDone(s) ==
  /\ Len(subs'[s].frames) > Len(subs[s].frames)
  /\ \E k \in (Len(subs[s].frames) + 1)..Len(subs'[s].frames) :
       subs'[s].frames[k][1] = "done"

DoneAfterWholeLog ==
  \A s \in SubIds :
    GetsDone(s) =>
      ChunkPayloads(subs'[s].frames) = streams'[subs'[s].stream].chunks

\* C2: for every subscriber that stays connected the chunk frames written to it
\* are at all times a prefix of its stream's chunk log (log order, no gap, no
\* duplicate), and at the step that writes its done frame it has been written
\* the whole log.
ChunkFramesFollowLog == []FramesArePrefixOfLog /\ [][DoneAfterWholeLog]_vars

\* a live subscriber and a replayed late joiner of one stream both hold the
\* whole log of MaxChunks chunks followed by done
ReplayedAndLiveGotWholeLog ==
  \E a, b \in SubIds :
    /\ a # b
    /\ subs[a].stream = subs[b].stream /\ subs[a].stream # 0
    /\ StaysConnected(a) /\ StaysConnected(b)
    /\ subs[a].rpc = "none" /\ subs[b].rpc = "exited"
    /\ Len(streams[subs[a].stream].chunks) = MaxChunks
    /\ subs[a].frames = subs[b].frames
    /\ Len(subs[a].frames) = MaxChunks + 1
    /\ subs[a].frames[MaxChunks + 1][1] = "done"

\* no task of the registry is left that could still write to request s
NothingPending(s) == subs[s].rpc \in {"none", "exited", "returned"}

HasTerminalFrame(s) ==
  \E k \in 1..Len(subs[s].frames) : IsTerminalFrame(subs[s].frames[k])

\* C3: every subscriber that stays connected receives a terminal frame once
\* the upstream call of its stream has finished: when that call has settled
\* and no replay of the subscriber is pending, the terminal frame has been
\* written and the connection ended.
TerminalFrameOnceFinished ==
  \A s \in SubIds :
    (/\ StaysConnected(s)
     /\ calls[subs[s].stream].state = "settled"
     /\ NothingPending(s))
    => (HasTerminalFrame(s) /\ subs[s].ended)

\* C4: each subscriber is sent at most one terminal frame and no chunk frame
\* is written after it.
SingleTerminalFrameLast ==
  \A s \in SubIds :
    \A k \in 1..Len(subs[s].frames) :
      IsTerminalFrame(subs[s].frames[k]) => k = Len(subs[s].frames)

\* ---- job queue: the store (db/jobQueue.ts, db/videoExamples.ts) -------------

HasJob(js, h) == \E id \in JobIds : js[id].hash = h

\* findJobByHash: the id of the row, 0 for null
FindJobByHash(js, h) ==
  IF HasJob(js, h) THEN CHOOSE id \in JobIds : js[id].hash = h ELSE 0

JobStatus(js, h) ==
  IF HasJob(js, h) THEN js[FindJobByHash(js, h)].status ELSE "none"

\* UPDATE job_queue SET status, current_video_id WHERE hash
UpdateJobStatus(js, h, status, videoId) ==
  [id \in JobIds |->
     IF js[id].hash = h
     THEN [js[id] EXCEPT !.status = status, !.currentVideoId = videoId]
     ELSE js[id]]

\* UPDATE job_queue SET status = 'completed', result WHERE hash
UpdateJobResult(js, h, result) ==
  [id \in JobIds |->
     IF js[id].hash = h
     THEN [js[id] EXCEPT !.status = "completed", !.result = result]
     ELSE js[id]]

\* UPDATE job_queue SET status = 'failed', error WHERE hash
UpdateJobError(js, h, error) ==
  [id \in JobIds |->
     IF js[id].hash = h
     THEN [js[id] EXCEPT !.status = "failed", !.error = error]
     ELSE js[id]]

\* SELECT ... WHERE status = 'queued' ORDER BY created_at: the hashes of the rows
GetQueuedJobs(js) ==
  LET ids == SetToSeq({id \in JobIds : js[id].status = "queued"})
  IN  [k \in 1..Len(ids) |-> js[ids[k]].hash]

\* the row an INSERT creates next (rows are numbered by created_at)
NextJobId(js) ==
  IF \E id \in JobIds : js[id].status = "none"
  THEN CHOOSE id \in JobIds :
         js[id].status = "none" /\ \A o \in JobIds : js[o].status = "none" => id <= o
  ELSE 0

\* the segment the pipeline extracts from candidate video v
MatchOf(v) == [videoId |-> v, startTime |-> 10 * v, endTime |-> 10 * v + 4, caption |-> v]

\* outcomes of a write to the store
StoreWorks == {"ok"}
StoreMayFail == {"ok", "throws"}

\* ---- background worker (services/backgroundWorker.ts) ------------------------

Loops == scheduledLoops + BagCardinality(awaitingLoops)

\* workerLoop 38-52, entered with `pending` other invocations scheduled: up to
\* the await of getQueuedJobs, whose SELECT is evaluated as it is issued
WorkerLoopCall(pending) ==
  IF Cardinality(runningJobs) >= MAX_CONCURRENT_JOBS
  THEN /\ scheduledLoops' = pending + 1
       /\ UNCHANGED awaitingLoops
  ELSE /\ scheduledLoops' = pending
       /\ awaitingLoops' = awaitingLoops (+) SetToBag({GetQueuedJobs(jobs)})

\* startBackgroundWorker 94-103
StartBackgroundWorker ==
  /\ ~isRunning
  /\ isRunning' = TRUE
  /\ WorkerLoopCall(scheduledLoops)
  /\ UNCHANGED <<jobs, segments, reqs, runningJobs, tasks>>
  /\ UNCHANGED <<svars, ovars>>

\* a setTimeout / setImmediate callback calls workerLoop
WorkerLoopFires ==
  /\ scheduledLoops > 0
  /\ IF isRunning THEN WorkerLoopCall(scheduledLoops - 1)
     ELSE scheduledLoops' = scheduledLoops - 1 /\ UNCHANGED awaitingLoops
  /\ UNCHANGED <<jobs, segments, reqs, isRunning, runningJobs, tasks>>
  /\ UNCHANGED <<svars, ovars>>

\* the mutation of Dispatch that leaves out the capacity check of line 69
RECURSIVE DispatchNoLimit(_, _)
DispatchNoLimit(snapshot, running) ==
  IF snapshot = <<>> THEN running
  ELSE IF Head(snapshot) \in running THEN DispatchNoLimit(Tail(snapshot), running)
  ELSE DispatchNoLimit(Tail(snapshot), running \cup {Head(snapshot)})

\* workerLoop 62-77: the keys of runningJobs after the loop over the snapshot
RECURSIVE Dispatch(_, _)
Dispatch(snapshot, running) ==
  IF snapshot = <<>> THEN running
  ELSE IF Head(snapshot) \in running THEN Dispatch(Tail(snapshot), running)
  ELSE IF Cardinality(running) >= MAX_CONCURRENT_JOBS THEN running
  ELSE Dispatch(Tail(snapshot), running \cup {Head(snapshot)})

\* workerLoop 52-91 after getQueuedJobs returned `snapshot`; every branch
\* schedules the next invocation; startJobProcessing calls processJob, which
\* runs up to its await of updateJobStatus(hash, 'searching')
WorkerLoopResumes(snapshot) ==
  /\ BagIn(snapshot, awaitingLoops)
  /\ awaitingLoops' = awaitingLoops (-) SetToBag({snapshot})
  /\ scheduledLoops' = scheduledLoops + 1
  /\ runningJobs' = Dispatch(snapshot, runningJobs)
  /\ tasks' = [h \in Hashes |->
                 IF h \in runningJobs' \ runningJobs
                 THEN [NoTask EXCEPT !.pc = "updateSearching"] ELSE tasks[h]]
  /\ UNCHANGED <<jobs, segments, reqs, isRunning>>
  /\ UNCHANGED <<svars, ovars>>

\* ---- job pipeline (services/jobProcessor.ts processJob) ----------------------
\* A task is at the call it awaits.  A write to the store takes effect in the
\* step that issues it; `store` holds the outcomes a write can have.

Ended == [NoTask EXCEPT !.pc = "ended"]

\* processJob 270-274, then 275-277: the error write after the last candidate
Exhausted(js, h, t, store) ==
  {[jobs |-> UpdateJobError(js, h, "No English video found"), task |-> Ended]}
  \cup {[jobs |-> js, task |-> [t EXCEPT !.pc = "catch"]] : o \in store \ {"ok"}}

\* a pipeline in which whatever ends a candidate ends the job
AfterCandidateAbort(js, h, t, store) ==
  {[jobs |-> js, task |-> [t EXCEPT !.pc = "catch"]]}

\* processJob 136-147, 262-267: on to the next candidate, or out of the loop
AfterCandidate(js, h, t, store) ==
  IF t.i < t.videos
  THEN {[jobs |-> js, task |-> [t EXCEPT !.pc = "isVideoEmbeddable", !.i = @ + 1]]}
  ELSE Exhausted(js, h, t, store)

\* the task of h goes on as `out` says; when processJob has settled,
\* startJobProcessing 26-34 runs: runningJobs.delete and setImmediate(workerLoop)
\* (a continuation beyond MaxLoops pending ones is left out)
Settle(h, out) ==
  /\ jobs' = out.jobs
  /\ IF out.task.pc = "ended"
     THEN /\ tasks' = [tasks EXCEPT ![h] = NoTask]
          /\ runningJobs' = runningJobs \ {h}
          /\ scheduledLoops' = IF Loops < MaxLoops THEN scheduledLoops + 1
                               ELSE scheduledLoops
     ELSE /\ tasks' = [tasks EXCEPT ![h] = out.task]
          /\ UNCHANGED <<runningJobs, scheduledLoops>>

\* processJob 103: updateJobStatus(hash, 'searching')
ProcessJobSearching(h, store) ==
  /\ tasks[h].pc = "updateSearching"
  /\ \E o \in store :
       Settle(h, IF o = "ok"
                 THEN [jobs |-> UpdateJobStatus(jobs, h, "searching", 0),
                       task |-> [tasks[h] EXCEPT !.pc = "search"]]
                 ELSE [jobs |-> jobs, task |-> [tasks[h] EXCEPT !.pc = "catch"]])
  /\ UNCHANGED <<segments, reqs, isRunning, awaitingLoops>>
  /\ UNCHANGED <<svars, ovars>>

\* processJob 107-133: the search strategies found `n` videos, or one threw
ProcessJobSearch(h, counts, store) ==
  /\ tasks[h].pc = "search"
  /\ \E n \in counts, o \in {"returns", "throws"} :
       \E out \in
           IF o = "throws" THEN {[jobs |-> jobs, task |-> [tasks[h] EXCEPT !.pc = "catch"]]}
           ELSE IF n = 0
           THEN {[jobs |-> UpdateJobError(jobs, h, "No videos found for this query"),
                  task |-> Ended]}
                \cup {[jobs |-> jobs, task |-> [tasks[h] EXCEPT !.pc = "catch"]] :
                        w \in store \ {"ok"}}
           ELSE {[jobs |-> jobs,
                  task |-> [pc |-> "isVideoEmbeddable", videos |-> n, i |-> 1]]} :
         Settle(h, out)
  /\ UNCHANGED <<segments, reqs, isRunning, awaitingLoops>>
  /\ UNCHANGED <<svars, ovars>>

\* processJob 144-155: isVideoEmbeddable answered (or threw), then
\* updateJobStatus(hash, 'downloading', videoId)
ProcessJobEmbeddable(h, store) ==
  /\ tasks[h].pc = "isVideoEmbeddable"
  /\ \E embeddable \in BOOLEAN, o \in store :
       \E out \in
           IF embeddable /\ o = "ok"
           THEN {[jobs |-> UpdateJobStatus(jobs, h, "downloading", tasks[h].i),
                  task |-> [tasks[h] EXCEPT !.pc = "downloadAudio"]]}
           ELSE AfterCandidate(jobs, h, tasks[h], store) :
         Settle(h, out)
  /\ UNCHANGED <<segments, reqs, isRunning, awaitingLoops>>
  /\ UNCHANGED <<svars, ovars>>

\* processJob 155-163: downloadAudio returned (or threw), then
\* updateJobStatus(hash, 'transcribing', videoId)
ProcessJobDownload(h, store) ==
  /\ tasks[h].pc = "downloadAudio"
  /\ \E downloaded \in BOOLEAN, o \in store :
       \E out \in
           IF downloaded /\ o = "ok"
           THEN {[jobs |-> UpdateJobStatus(jobs, h, "transcribing", tasks[h].i),
                  task |-> [tasks[h] EXCEPT !.pc = "transcribe"]]}
           ELSE AfterCandidate(jobs, h, tasks[h], store) :
         Settle(h, out)
  /\ UNCHANGED <<segments, reqs, isRunning, awaitingLoops>>
  /\ UNCHANGED <<svars, ovars>>

\* processJob 163-223: transcription, captions, English check and match (any
\* of which may send the loop to the next candidate), then updateJobResult
ProcessJobTranscribe(h, store) ==
  /\ tasks[h].pc = "transcribe"
  /\ \E matched \in BOOLEAN, o \in store :
       \E out \in
           IF matched /\ o = "ok"
           THEN {[jobs |-> UpdateJobResult(jobs, h, MatchOf(tasks[h].i)),
                  task |-> [tasks[h] EXCEPT !.pc = "insertVideoExample"]]}
           ELSE AfterCandidate(jobs, h, tasks[h], store) :
         Settle(h, out)
  /\ UNCHANGED <<segments, reqs, isRunning, awaitingLoops>>
  /\ UNCHANGED <<svars, ovars>>

\* processJob 222-261: insertVideoExample (its failure, such as a duplicate
\* hash, is logged only), word index, return
ProcessJobCache(h, store) ==
  /\ tasks[h].pc = "insertVideoExample"
  /\ \E o \in store :
       segments' = IF o = "ok" /\ segments[h] = NoResult
                   THEN [segments EXCEPT ![h] = MatchOf(tasks[h].i)]
                   ELSE segments
  /\ Settle(h, [jobs |-> jobs, task |-> Ended])
  /\ UNCHANGED <<reqs, isRunning, awaitingLoops>>
  /\ UNCHANGED <<svars, ovars>>

\* processJob 275-278: the outer catch; when updateJobError throws there,
\* processJob rejects and startJobProcessing 24-25 logs it
ProcessJobCatch(h, store) ==
  /\ tasks[h].pc = "catch"
  /\ \E o \in store :
       Settle(h, [jobs |-> IF o = "ok"
                           THEN UpdateJobError(jobs, h, "Internal processing error")
                           ELSE jobs,
                  task |-> Ended])
  /\ UNCHANGED <<segments, reqs, isRunning, awaitingLoops>>
  /\ UNCHANGED <<svars, ovars>>

\* ---- POST /search without jobId (routes/youtubeSearch.ts) --------------------
\* Requests are numbered in the order of arrival.

\* the mutation of SearchCacheLookup that does not consult video_examples
SearchCacheLookupBlind(r, query) ==
  /\ reqs[r].pc = "new"
  /\ IF r = 1 THEN TRUE ELSE reqs[r - 1].pc # "new"
  /\ LET n == NormalizeQuery(query)
         h == GenerateHash(n.normalized)
     IN  reqs' = [reqs EXCEPT ![r] =
           IF ~n.ok
           THEN [NoReq EXCEPT !.pc = "done", !.query = query, !.via = "normalize",
                              !.resp = [NoResponse EXCEPT !.code = 400]]
           ELSE [NoReq EXCEPT !.pc = "findJobByHash", !.query = query, !.hash = h]]
  /\ UNCHANGED <<jobs, segments, isRunning, scheduledLoops, awaitingLoops,
                 runningJobs, tasks>>
  /\ UNCHANGED <<svars, ovars>>

\* 106-135: normalizeQuery, generateHash, findByHash and the cache-hit answer
SearchCacheLookup(r, query) ==
  /\ reqs[r].pc = "new"
  /\ IF r = 1 THEN TRUE ELSE reqs[r - 1].pc # "new"
  /\ LET n == NormalizeQuery(query)
         h == GenerateHash(n.normalized)
     IN  reqs' = [reqs EXCEPT ![r] =
           IF ~n.ok
           THEN [NoReq EXCEPT !.pc = "done", !.query = query, !.via = "normalize",
                              !.resp = [NoResponse EXCEPT !.code = 400]]
           ELSE IF segments[h] # NoResult
           THEN [NoReq EXCEPT !.pc = "done", !.query = query, !.hash = h,
                              !.via = "findByHash",
                              !.resp = [code |-> 200, status |-> "completed",
                                        jobId |-> <<"hash", h>>,
                                        result |-> segments[h]]]
           ELSE [NoReq EXCEPT !.pc = "findJobByHash", !.query = query, !.hash = h]]
  /\ UNCHANGED <<jobs, segments, isRunning, scheduledLoops, awaitingLoops,
                 runningJobs, tasks>>
  /\ UNCHANGED <<svars, ovars>>

\* 137-170: findJobByHash and the answer from an existing job
SearchJobLookup(r) ==
  /\ reqs[r].pc = "findJobByHash"
  /\ LET id  == FindJobByHash(jobs, reqs[r].hash)
     IN  reqs' = [reqs EXCEPT ![r] =
           IF id = 0 THEN [@ EXCEPT !.pc = "createJob"]
           ELSE [@ EXCEPT !.pc = "done", !.via = "findJobByHash",
                          !.resp = [code |-> 200,
                                    status |-> jobs[id].status,
                                    jobId |-> <<"job", id>>,
                                    result |-> IF /\ jobs[id].status = "completed"
                                                  /\ jobs[id].result # NoResult
                                               THEN jobs[id].result ELSE NoResult]]]
  /\ UNCHANGED <<jobs, segments, isRunning, scheduledLoops, awaitingLoops,
                 runningJobs, tasks>>
  /\ UNCHANGED <<svars, ovars>>

\* 172-192 with createJob (db/jobQueue.ts): the INSERT fails on the UNIQUE
\* hash column when a row for the hash exists; the route answers 500 then
SearchCreateJob(r) ==
  /\ reqs[r].pc = "createJob"
  /\ LET id == NextJobId(jobs)
     IN  IF HasJob(jobs, reqs[r].hash) \/ id = 0
         THEN /\ reqs' = [reqs EXCEPT ![r].pc = "done", ![r].via = "createJob",
                                      ![r].resp = [NoResponse EXCEPT !.code = 500]]
              /\ UNCHANGED jobs
         ELSE /\ jobs' = [jobs EXCEPT ![id] =
                            [NoJob EXCEPT !.hash = reqs[r].hash, !.status = "queued"]]
              /\ reqs' = [reqs EXCEPT ![r].pc = "done", ![r].via = "createJob",
                                      ![r].resp = [NoResponse EXCEPT
                                                     !.code = 200, !.status = "queued",
                                                     !.jobId = <<"job", id>>]]
  /\ UNCHANGED <<segments, isRunning, scheduledLoops, awaitingLoops, runningJobs, tasks>>
  /\ UNCHANGED <<svars, ovars>>

\* ---- specifications of the job queue ----------------------------------------

\* SpecJobs: an empty store, requests for one fingerprint, a fallible store
InitJobs ==
  /\ StreamAtRest
  /\ JobsAtRest
  /\ OthersAtRest
  /\ jobs = [id \in JobIds |-> NoJob]

NextJobs ==
  \/ \E r \in ReqIds, q \in RawQueries : SearchCacheLookup(r, q)
  \/ \E r \in ReqIds : SearchJobLookup(r)
  \/ \E r \in ReqIds : SearchCreateJob(r)
  \/ StartBackgroundWorker
  \/ WorkerLoopFires
  \/ \E snapshot \in BagToSet(awaitingLoops) : WorkerLoopResumes(snapshot)
  \/ \E h \in Hashes : ProcessJobSearching(h, StoreMayFail)
  \/ \E h \in Hashes : ProcessJobSearch(h, 0..MaxVideos, StoreMayFail)
  \/ \E h \in Hashes : ProcessJobEmbeddable(h, StoreMayFail)
  \/ \E h \in Hashes : ProcessJobDownload(h, StoreMayFail)
  \/ \E h \in Hashes : ProcessJobTranscribe(h, StoreMayFail)
  \/ \E h \in Hashes : ProcessJobCache(h, StoreMayFail)
  \/ \E h \in Hashes : ProcessJobCatch(h, StoreMayFail)

SpecJobs == InitJobs /\ [][NextJobs]_vars

\* SpecBacklog: the worker starts on a store that holds NumBacklog queued jobs
\* (more than MAX_CONCURRENT_JOBS); the catalog has no video for them, only the
\* searches of the NumReturning oldest come back, and the store works
InitBacklog ==
  /\ StreamAtRest
  /\ JobsAtRest
  /\ OthersAtRest
  /\ jobs = [id \in JobIds |-> [NoJob EXCEPT !.hash = id, !.status = "queued"]]

NextBacklog ==
  \/ StartBackgroundWorker
  \/ WorkerLoopFires
  \/ \E snapshot \in BagToSet(awaitingLoops) : WorkerLoopResumes(snapshot)
  \/ \E h \in Hashes : ProcessJobSearching(h, StoreWorks)
  \/ \E h \in 1..NumReturning : ProcessJobSearch(h, {0}, StoreWorks)
  \/ \E h \in Hashes : ProcessJobCatch(h, StoreWorks)

SpecBacklog == InitBacklog /\ [][NextBacklog]_vars

\* ---- job queue: properties ---------------------------------------------------

Terminal == {"completed", "failed"}

\* C5: once the status of a job is completed or failed, no step changes it.
TerminalStatusKept ==
  [][\A id \in JobIds :
       jobs[id].status \in Terminal => jobs'[id].status = jobs[id].status]_vars

OneJobPerHash ==
  \A a, b \in JobIds : (jobs[a].hash # 0 /\ jobs[a].hash = jobs[b].hash) => a = b

\* C6: the job store holds at most one job per fingerprint, and two /search
\* requests that both found no job for one fingerprint and went on to create
\* it are both answered with one and the same job id, neither with an error.
RacingSearchesShareJob ==
  /\ OneJobPerHash
  /\ \A a, b \in ReqIds :
       (/\ a # b
        /\ reqs[a].via = "createJob" /\ reqs[b].via = "createJob"
        /\ reqs[a].hash = reqs[b].hash)
       => (/\ reqs[a].resp.code = 200 /\ reqs[b].resp.code = 200
           /\ reqs[a].resp.jobId = reqs[b].resp.jobId)

\* C7: the number of running jobs never exceeds MAX_CONCURRENT_JOBS.
RunningJobsBounded == Cardinality(runningJobs) <= MAX_CONCURRENT_JOBS

\* two worker loops are pending and the running set is full again after a
\* loop resumed from its await and dispatched from an outdated snapshot
FullAfterInterleavedLoops ==
  /\ Cardinality(runningJobs) = MAX_CONCURRENT_JOBS
  /\ Loops >= 2
  /\ \E h \in runningJobs :
       tasks[h].pc = "updateSearching" /\ JobStatus(jobs, h) \in Terminal

\* C8: the worker starts processJob for a job only when the stored status of
\* the job is queued at that moment and no running task holds its fingerprint.
DispatchOnlyQueued ==
  [][\A h \in Hashes :
       (tasks[h].pc = "idle" /\ tasks'[h].pc = "updateSearching")
       => (JobStatus(jobs, h) = "queued" /\ h \notin runningJobs)]_vars

\* request r does its cache lookup in this step, for a valid query whose
\* fingerprint has a segment in video_examples
LooksUpStoredSegment(r) ==
  /\ reqs[r].pc = "new" /\ reqs'[r].pc # "new"
  /\ NormalizeQuery(reqs'[r].query).ok
  /\ segments[GenerateHash(NormalizeQuery(reqs'[r].query).normalized)] # NoResult

AnsweredFromSegment(r) ==
  LET h == GenerateHash(NormalizeQuery(reqs'[r].query).normalized)
  IN  /\ reqs'[r].pc = "done"
      /\ reqs'[r].resp.code = 200
      /\ reqs'[r].resp.status = "completed"
      /\ reqs'[r].resp.result = segments[h]
      /\ jobs' = jobs
      /\ tasks' = tasks /\ runningJobs' = runningJobs

SegmentKept ==
  \A h \in Hashes : segments[h] # NoResult => segments'[h] = segments[h]

\* C9: a stored segment record never changes, and every /search request
\* without jobId whose query has the canonical form of a stored segment is
\* answered completed with exactly that record, creating no job and starting
\* no pipeline run.
StoredSegmentAnswersSearch ==
  [][SegmentKept /\ \A r \in ReqIds : LooksUpStoredSegment(r) => AnsweredFromSegment(r)]_vars

\* the query "a" created the job whose segment answers the later query " A"
VariantQueryAnsweredFromSegment ==
  \E a, b \in ReqIds :
    /\ reqs[a].query = <<"a">> /\ reqs[a].via = "createJob"
    /\ reqs[a].resp.status = "queued"
    /\ reqs[b].query = <<" ", "A">> /\ reqs[b].via = "findByHash"
    /\ reqs[b].resp.status = "completed"
    /\ reqs[b].resp.result = segments[reqs[b].hash]
    /\ reqs[b].resp.result # NoResult

\* nothing will write the status of the job of hash h again: no task runs for
\* it and no worker loop holds a snapshot that lists it
Abandoned(h) ==
  /\ h \notin runningJobs
  /\ \A snapshot \in BagToSet(awaitingLoops) :
       \A k \in 1..Len(snapshot) : snapshot[k] # h

\* C10: every job reaches a terminal status; in finite runs: no job is left
\* in a status other than queued, completed or failed with nothing that will
\* write its status again.
NoJobStranded ==
  \A id \in JobIds :
    jobs[id].status \in {"searching", "downloading", "transcribing"}
    => ~Abandoned(jobs[id].hash)

\* ---- paywall (middleware/paywall.ts, services/revenueCat.ts, db/aiPaywall.ts) -
\* One user, with REVENUECAT_API_KEY configured.  Requests are numbered in the
\* order of arrival.

ProviderAnswers == {"active", "inactive", "notFound", "error", "throws"}

InFlightPaywall == {r \in PaywallReqIds : preqs[r].pc \notin {"new", "done"}}

\* the mutation of CacheAfterAnswer that stores every parsed status
CacheAfterAnswerAny(cache, answer) ==
  IF answer \in {"active", "inactive"}
  THEN [present |-> TRUE, isActive |-> answer = "active", fresh |-> TRUE]
  ELSE cache

\* checkSubscription 93-127: the cache entry of the user after the answer
CacheAfterAnswer(cache, answer) ==
  IF answer = "active" THEN [present |-> TRUE, isActive |-> TRUE, fresh |-> TRUE]
  ELSE IF answer = "inactive" THEN NoEntry
  ELSE cache

\* aiPaywallMiddleware 15-34 with checkSubscription 59-89: up to the answer
\* from the cache or the await of fetch
PaywallArrives(r, forceRefresh) ==
  /\ preqs[r].pc = "new"
  /\ IF r = 1 THEN TRUE ELSE preqs[r - 1].pc # "new"
  /\ LET hit == ~forceRefresh /\ subscriptionCache.present /\ subscriptionCache.fresh
     IN  /\ preqs' = [preqs EXCEPT ![r] =
                        [NoPaywallReq EXCEPT
                           !.pc = IF hit THEN "checkAiPaywall" ELSE "fetch",
                           !.isActive = IF hit THEN subscriptionCache.isActive ELSE FALSE,
                           !.epoch = epoch]]
         /\ subscriptionCache' = IF forceRefresh THEN NoEntry ELSE subscriptionCache
  /\ overlap' = (overlap \/ InFlightPaywall # {})
  /\ UNCHANGED <<usage, epoch, lastAnswer, freeAllowed>>
  /\ UNCHANGED besidesPaywall

\* checkSubscription 89-127: the provider answered (active or inactive
\* subscriber, 404, another non-OK status) or fetch threw
ProviderAnswered(r, answer) ==
  /\ preqs[r].pc = "fetch"
  /\ subscriptionCache' = CacheAfterAnswer(subscriptionCache, answer)
  /\ preqs' = [preqs EXCEPT ![r].pc = "checkAiPaywall", ![r].answer = answer,
                            ![r].isActive = (answer = "active")]
  /\ lastAnswer' = answer
  /\ UNCHANGED <<usage, epoch, overlap, freeAllowed>>
  /\ UNCHANGED besidesPaywall

\* the mutation of QuotaExceeded that compares with > instead of >=
QuotaExceededLate(row) == row.window = "open" /\ row.count > FREE_REQUESTS_LIMIT

\* checkAiPaywall 73-112: the row exists, its window is running and the limit
\* is used up
QuotaExceeded(row) == row.window = "open" /\ row.count >= FREE_REQUESTS_LIMIT

\* the record of a request the middleware is through with: next() for a
\* subscriber ("subscriber") or a free user ("allowed"), or 403 ("denied")
Answered(outcome) == [NoPaywallReq EXCEPT !.pc = "done", !.outcome = outcome]

\* aiPaywallMiddleware 37-72 with checkAiPaywall: a subscriber passes (next());
\* otherwise the SELECT of checkAiPaywall, then 403 or the call of
\* incrementAiUsage
CheckAiPaywall(r) ==
  /\ preqs[r].pc = "checkAiPaywall"
  /\ preqs' = [preqs EXCEPT ![r] =
       IF preqs[r].isActive THEN Answered("subscriber")
       ELSE IF QuotaExceeded(usage) THEN Answered("denied")
       ELSE [@ EXCEPT !.pc = "incrementSelect"]]
  /\ UNCHANGED <<usage, subscriptionCache, epoch, lastAnswer, overlap, freeAllowed>>
  /\ UNCHANGED besidesPaywall

\* incrementAiUsage 129-151: the SELECT and the choice of the write
IncrementSelect(r) ==
  /\ preqs[r].pc = "incrementSelect"
  /\ preqs' = [preqs EXCEPT ![r].pc = "incrementWrite",
                            ![r].plan = IF usage.window = "none" THEN "insert"
                                        ELSE IF usage.window = "expired" THEN "reset"
                                        ELSE "increment"]
  /\ UNCHANGED <<usage, subscriptionCache, epoch, lastAnswer, overlap, freeAllowed>>
  /\ UNCHANGED besidesPaywall

\* incrementAiUsage 136-168, then aiPaywallMiddleware 75-90: the INSERT or
\* UPDATE, then next(); an INSERT that finds a row of the user fails on the
\* UNIQUE user_id and the catch of the middleware calls next() as well
IncrementWrite(r) ==
  /\ preqs[r].pc = "incrementWrite"
  /\ usage' =
       IF preqs[r].plan = "insert"
       THEN IF usage.window = "none" THEN [count |-> 1, window |-> "open"] ELSE usage
       ELSE IF preqs[r].plan = "reset" THEN [count |-> 1, window |-> "open"]
       ELSE [usage EXCEPT !.count = @ + 1]
  /\ preqs' = [preqs EXCEPT ![r] = Answered("allowed")]
  /\ freeAllowed' = IF preqs[r].epoch = epoch THEN freeAllowed + 1 ELSE freeAllowed
  /\ UNCHANGED <<subscriptionCache, epoch, lastAnswer, overlap>>
  /\ UNCHANGED besidesPaywall

\* time passes: the window of the usage row has run out
WindowExpires ==
  /\ usage.window = "open"
  /\ epoch < MaxExpiries
  /\ usage' = [usage EXCEPT !.window = "expired"]
  /\ epoch' = epoch + 1
  /\ freeAllowed' = 0
  /\ UNCHANGED <<subscriptionCache, preqs, lastAnswer, overlap>>
  /\ UNCHANGED besidesPaywall

\* time passes: the cache entry is older than CACHE_TTL_MS
SubscriptionCacheAges ==
  /\ subscriptionCache.present /\ subscriptionCache.fresh
  /\ subscriptionCache' = [subscriptionCache EXCEPT !.fresh = FALSE]
  /\ UNCHANGED <<usage, preqs, epoch, lastAnswer, overlap, freeAllowed>>
  /\ UNCHANGED besidesPaywall

InitPaywall ==
  /\ StreamAtRest
  /\ JobsAtRest
  /\ jobs = [id \in JobIds |-> NoJob]
  /\ OthersAtRest

NextPaywall ==
  \/ \E r \in PaywallReqIds, forceRefresh \in BOOLEAN : PaywallArrives(r, forceRefresh)
  \/ \E r \in PaywallReqIds, answer \in ProviderAnswers : ProviderAnswered(r, answer)
  \/ \E r \in PaywallReqIds : CheckAiPaywall(r)
  \/ \E r \in PaywallReqIds : IncrementSelect(r)
  \/ \E r \in PaywallReqIds : IncrementWrite(r)
  \/ WindowExpires
  \/ SubscriptionCacheAges

SpecPaywall == InitPaywall /\ [][NextPaywall]_vars

\* ---- paywall: properties ------------------------------------------------------

\* the request count that is in force: that of a row whose window is running
RequestsUsed(row) == IF row.window = "open" THEN row.count ELSE 0

\* the middleware is through with request r in this step
PaywallFinishes(r) == preqs[r].pc \notin {"new", "done"} /\ preqs'[r].pc = "done"

FailedAnswers == {"notFound", "error", "throws"}

FreeRequestsWithinLimit == freeAllowed <= FREE_REQUESTS_LIMIT

\* C13: a request whose provider call failed is not denied, and the failed
\* call writes nothing to the subscription cache.
ProviderFailureFailsOpen ==
  [][\A r \in PaywallReqIds :
       /\ (PaywallFinishes(r) /\ preqs[r].answer \in FailedAnswers)
          => preqs'[r].outcome # "denied"
       /\ (preqs[r].pc = "fetch" /\ preqs'[r].answer \in FailedAnswers)
          => subscriptionCache' = subscriptionCache]_vars

CacheEntryIsActive ==
  /\ subscriptionCache.present => subscriptionCache.isActive
  /\ lastAnswer = "inactive" => ~subscriptionCache.present

AsksProviderAfterInactive ==
  \A r \in PaywallReqIds :
    (lastAnswer = "inactive" /\ preqs[r].pc = "new" /\ preqs'[r].pc # "new")
    => preqs'[r].pc = "fetch"

\* C14: every entry of the subscription cache has isActive = true; while the
\* provider answer handled last was inactive the user has no entry, and a
\* request arriving then asks the provider.
OnlyActiveSubscriptionsCached ==
  []CacheEntryIsActive /\ [][AsksProviderAfterInactive]_vars

\* the user was served as a subscriber, the provider then answered inactive,
\* and the next request is asking the provider
AsksAgainAfterLapse ==
  /\ lastAnswer = "inactive" /\ ~overlap
  /\ \E r \in PaywallReqIds : preqs[r].pc = "fetch"
  /\ \E r \in PaywallReqIds : preqs[r].outcome = "subscriber"


\* ---- the word index (db/wordIndex) ----------------------------------------
\* Every addVideoToWordIndex call takes a connection of its own from the pool
\* and runs BEGIN ... COMMIT on it without setting an isolation level, so the
\* calls are READ COMMITTED transactions: a SELECT sees the rows committed
\* by then and the transaction's own writes; an UPDATE or INSERT of a row
\* that another open transaction wrote waits until that one has ended.
InFlightIndex == {c \in IndexCallIds : wcalls[c].pc \notin {"new", "done", "failed"}}

Count(s, videoExamples) ==
  Cardinality({k \in DOMAIN videoExamples : videoExamples[k] = s})

IsDuplicateNever(videoExamples, segment) == FALSE

\* videoExamples.some(example => same videoId, startTime and endTime)
IsDuplicate(videoExamples, segment) ==
  \E k \in DOMAIN videoExamples : videoExamples[k] = segment

\* the word the loop of call c is at
WordOf(c) == wcalls[c].words[wcalls[c].i]

\* the row of word w as a statement of call c sees it
Visible(c, w) ==
  IF wcalls[c].writes[w] # NoRow THEN wcalls[c].writes[w] ELSE wordIndex[w]

\* the open transactions other than c that wrote the row of word w
Holders(c, w) == {d \in InFlightIndex \ {c} : wcalls[d].writes[w] # NoRow}

\* the transactions call c is waiting for
WaitsFor(c) ==
  IF wcalls[c].pc \in {"update", "insert"} THEN Holders(c, WordOf(c)) ELSE {}

\* c is part of a cycle of waiting transactions
Deadlocked(c) ==
  LET RECURSIVE ReachFrom(_, _)
      ReachFrom(S, n) ==
        IF n = 0 THEN S
        ELSE ReachFrom(S \cup UNION {WaitsFor(d) : d \in S}, n - 1)
  IN c \in ReachFrom(WaitsFor(c), MaxIndexCalls)

\* the loop goes on to the next word, or leaves the loop for COMMIT
NextWord(call) ==
  IF call.i < Len(call.words)
    THEN [call EXCEPT !.pc = "select", !.i = call.i + 1, !.videoExamples = <<>>]
    ELSE [call EXCEPT !.pc = "commit", !.i = 0, !.videoExamples = <<>>]

\* addVideoToWordIndex(words, videoResponse): pool.connect() and BEGIN
AddVideoBegins(c, words, segment) ==
  /\ wcalls[c].pc = "new"
  /\ IF c = 1 THEN TRUE ELSE wcalls[c - 1].pc # "new"
  /\ wcalls' = [wcalls EXCEPT ![c] = [NoIndexCall EXCEPT !.pc = "select",
                                        !.words = words, !.segment = segment, !.i = 1]]
  /\ indexOverlap' = (indexOverlap \/ InFlightIndex # {})
  /\ UNCHANGED wordIndex
  /\ UNCHANGED besidesWordIndex

\* SELECT video_examples of the word; a duplicate is skipped
AddVideoSelects(c) ==
  /\ wcalls[c].pc = "select"
  /\ LET w == WordOf(c)
         row == Visible(c, w)
     IN wcalls' = [wcalls EXCEPT ![c] =
          IF row # NoRow
            THEN IF IsDuplicate(row, wcalls[c].segment)
                   THEN NextWord(wcalls[c])
                   ELSE [wcalls[c] EXCEPT !.pc = "update",
                           !.videoExamples = Append(row, wcalls[c].segment)]
            ELSE [wcalls[c] EXCEPT !.pc = "insert"]]
  /\ UNCHANGED <<wordIndex, indexOverlap>>
  /\ UNCHANGED besidesWordIndex

\* UPDATE word_index SET video_examples = $1 WHERE word = $2
AddVideoUpdates(c) ==
  /\ wcalls[c].pc = "update"
  /\ Holders(c, WordOf(c)) = {}
  /\ wcalls' = [wcalls EXCEPT ![c] =
       NextWord([wcalls[c] EXCEPT !.writes[WordOf(c)] = wcalls[c].videoExamples])]
  /\ UNCHANGED <<wordIndex, indexOverlap>>
  /\ UNCHANGED besidesWordIndex

\* INSERT INTO word_index: fails on the primary key when the row exists by now
AddVideoInserts(c) ==
  /\ wcalls[c].pc = "insert"
  /\ Holders(c, WordOf(c)) = {}
  /\ wcalls' = [wcalls EXCEPT ![c] =
       IF wordIndex[WordOf(c)] # NoRow
         THEN [wcalls[c] EXCEPT !.pc = "rollback"]
         ELSE NextWord([wcalls[c] EXCEPT !.writes[WordOf(c)] = <<wcalls[c].segment>>])]
  /\ UNCHANGED <<wordIndex, indexOverlap>>
  /\ UNCHANGED besidesWordIndex

\* the database ends a cycle of waiting transactions: the statement throws
AddVideoDeadlock(c) ==
  /\ Deadlocked(c)
  /\ wcalls' = [wcalls EXCEPT ![c].pc = "rollback"]
  /\ UNCHANGED <<wordIndex, indexOverlap>>
  /\ UNCHANGED besidesWordIndex

\* COMMIT: the writes of the call become the committed rows
AddVideoCommits(c) ==
  /\ wcalls[c].pc = "commit"
  /\ wordIndex' = [w \in Words |->
       IF wcalls[c].writes[w] # NoRow THEN wcalls[c].writes[w] ELSE wordIndex[w]]
  /\ wcalls' = [wcalls EXCEPT ![c] = [NoIndexCall EXCEPT !.pc = "done",
                  !.words = wcalls[c].words, !.segment = wcalls[c].segment]]
  /\ UNCHANGED indexOverlap
  /\ UNCHANGED besidesWordIndex

\* the catch block without ROLLBACK: the statements that ran stay written
AddVideoThrowsWithoutRollback(c) ==
  /\ wcalls[c].pc = "rollback"
  /\ wordIndex' = [w \in Words |->
       IF wcalls[c].writes[w] # NoRow THEN wcalls[c].writes[w] ELSE wordIndex[w]]
  /\ wcalls' = [wcalls EXCEPT ![c] = [NoIndexCall EXCEPT !.pc = "failed",
                  !.words = wcalls[c].words, !.segment = wcalls[c].segment]]
  /\ UNCHANGED indexOverlap
  /\ UNCHANGED besidesWordIndex

\* catch: ROLLBACK, and the error is thrown to processJob, which logs it
AddVideoRollsBack(c) ==
  /\ wcalls[c].pc = "rollback"
  /\ wcalls' = [wcalls EXCEPT ![c] = [NoIndexCall EXCEPT !.pc = "failed",
                  !.words = wcalls[c].words, !.segment = wcalls[c].segment]]
  /\ UNCHANGED <<wordIndex, indexOverlap>>
  /\ UNCHANGED besidesWordIndex

InitWordIndex ==
  /\ StreamAtRest
  /\ JobsAtRest
  /\ jobs = [id \in JobIds |-> NoJob]
  /\ OthersAtRest

NextWordIndex ==
  \/ \E c \in IndexCallIds, words \in WordLists, segment \in Segments :
       AddVideoBegins(c, words, segment)
  \/ \E c \in IndexCallIds : AddVideoSelects(c)
  \/ \E c \in IndexCallIds : AddVideoUpdates(c)
  \/ \E c \in IndexCallIds : AddVideoInserts(c)
  \/ \E c \in IndexCallIds : AddVideoDeadlock(c)
  \/ \E c \in IndexCallIds : AddVideoCommits(c)
  \/ \E c \in IndexCallIds : AddVideoRollsBack(c)

SpecWordIndex == InitWordIndex /\ [][NextWordIndex]_vars

\* ---- properties of the word index -------------------------------------------
\* the calls that returned without throwing
AddedCalls == {c \in IndexCallIds : wcalls[c].pc = "done"}

\* C15: while the addVideoToWordIndex calls run one after another, every word
\* a finished call was given has the call's segment exactly once in its
\* entry, however often the call was repeated.
RepeatedAddKeepsOneReference ==
  ~indexOverlap =>
    \A c \in AddedCalls : \A k \in DOMAIN wcalls[c].words :
      Count(wcalls[c].segment, wordIndex[wcalls[c].words[k]]) = 1

\* the same call was made by every caller in turn, for a list of two words,
\* and the entries hold the segment once
SameSegmentAddedRepeatedly ==
  /\ ~indexOverlap
  /\ AddedCalls = IndexCallIds
  /\ \A c \in IndexCallIds : /\ wcalls[c].words = wcalls[1].words
                             /\ wcalls[c].segment = wcalls[1].segment
  /\ \A k \in DOMAIN wcalls[1].words :
       /\ Len(wordIndex[wcalls[1].words[k]]) = 1
       /\ Count(wcalls[1].segment, wordIndex[wcalls[1].words[k]]) = 1
  /\ Len(wcalls[1].words) = MaxListLen

\* C16: the segment of a call that returned without throwing stays in the
\* entry of every word the call was given, also when calls overlap.
AddedReferencesKept ==
  \A c \in AddedCalls : \A k \in DOMAIN wcalls[c].words :
    Count(wcalls[c].segment, wordIndex[wcalls[c].words[k]]) >= 1

\* C37: addVideoToWordIndex is all-or-nothing: a call one of whose statements
\* failed, also on the key of a word another call inserted meanwhile, ends
\* by throwing and leaves every entry of the word index as it was.
FailedCallChangesNothing ==
  [][\A c \in IndexCallIds :
       /\ wcalls[c].pc = "rollback" => wcalls'[c].pc \in {"rollback", "failed"}
       /\ wcalls'[c].pc = "failed" /\ wcalls[c].pc # "failed" =>
            wordIndex' = wordIndex
       /\ wcalls'[c].pc = "failed" => wcalls'[c].writes = NoIndexCall.writes]_vars

\* call 1 wrote its first word, failed on its second word, which call 2
\* inserted meanwhile, and threw: neither entry holds its segment
FailedAfterFirstWordWritten ==
  /\ wcalls[1].pc = "failed"
  /\ wcalls[2].pc = "done"
  /\ wcalls[3].pc = "new"
  /\ Len(wcalls[1].words) = 2
  /\ wcalls[1].words[1] # wcalls[1].words[2]
  /\ wcalls[1].segment # wcalls[2].segment
  /\ \A k \in DOMAIN wcalls[2].words : wcalls[2].words[k] = wcalls[1].words[2]
  /\ wordIndex[wcalls[1].words[1]] = NoRow
  /\ wordIndex[wcalls[1].words[2]] = <<wcalls[2].segment>>

\* ---- the size of the Stream Registry -----------------------------------------
\* The registry holds streams of many fingerprints.  Only their number
\* matters here, so the map is kept as four counts: streams in status
\* active, completed streams without subscribers (idle), completed streams
\* with subscribers (busy), and streams in status error.
Size(p) == p.active + p.idle + p.busy + p.errored

Min2(a, b) == IF a <= b THEN a ELSE b

\* cleanupOldestCompletedStreams: how many streams it deletes
Evicted(p) == Min2(Max2(1, p.idle \div 10), p.idle)

\* createStream, called by getOrCreateStream for a fingerprint without stream
CreateStreamCounted ==
  /\ Size(population) < MaxPopulation
  /\ LET evicted == IF Size(population) >= MAX_ACTIVE_STREAMS
                    THEN Evicted(population) ELSE 0
     IN population' = [population EXCEPT !.active = @ + 1, !.idle = @ - evicted]
  /\ UNCHANGED besidesPopulation

\* completeStream: ends the responses of the subscribers, which stay in the
\* map until their connections have closed
StreamCompletesCounted(subscribed) ==
  /\ population.active > 0
  /\ subscribed => population.busy < MaxBusy
  /\ population' = IF subscribed
       THEN [population EXCEPT !.active = @ - 1, !.busy = @ + 1]
       ELSE [population EXCEPT !.active = @ - 1, !.idle = @ + 1]
  /\ UNCHANGED besidesPopulation

\* errorStream
StreamErrorsCounted ==
  /\ population.active > 0
  /\ population.errored < MaxErrored
  /\ population' = [population EXCEPT !.active = @ - 1, !.errored = @ + 1]
  /\ UNCHANGED besidesPopulation

\* unsubscribe of the last subscriber of a completed stream
LastSubscriberLeaves ==
  /\ population.busy > 0
  /\ population' = [population EXCEPT !.busy = @ - 1, !.idle = @ + 1]
  /\ UNCHANGED besidesPopulation

\* subscribe to a completed stream that getOrCreateStream found
LateSubscriberJoins ==
  /\ population.idle > 0
  /\ population.busy < MaxBusy
  /\ population' = [population EXCEPT !.idle = @ - 1, !.busy = @ + 1]
  /\ UNCHANGED besidesPopulation

\* the timer of scheduleCleanup finds a stream without subscribers under its
\* key: the completed one, or an active one created since under the same key
CleanupTimerCounted(kind) ==
  /\ population[kind] > 0
  /\ population' = [population EXCEPT ![kind] = @ - 1]
  /\ UNCHANGED besidesPopulation

\* the timer of errorStream deletes whatever stream is under its key
ErrorTimerCounted(kind) ==
  /\ population[kind] > 0
  /\ population' = [population EXCEPT ![kind] = @ - 1]
  /\ UNCHANGED besidesPopulation

InitPopulation ==
  /\ StreamAtRest
  /\ JobsAtRest
  /\ jobs = [id \in JobIds |-> NoJob]
  /\ OthersAtRest

NextPopulation ==
  \/ CreateStreamCounted
  \/ \E subscribed \in BOOLEAN : StreamCompletesCounted(subscribed)
  \/ StreamErrorsCounted
  \/ LastSubscriberLeaves
  \/ LateSubscriberJoins
  \/ \E kind \in {"idle", "active"} : CleanupTimerCounted(kind)
  \/ \E kind \in {"errored", "active"} : ErrorTimerCounted(kind)

SpecPopulation == InitPopulation /\ [][NextPopulation]_vars

\* ---- properties of the size of the registry -----------------------------------
\* C17: the registry never holds more than MAX_ACTIVE_STREAMS streams.
RegistryWithinLimit == Size(population) <= MAX_ACTIVE_STREAMS

\* ---- unsubscribed streams -------------------------------------------------------
\* C18: a stream whose subscribers were removed still reaches a terminal
\* status: once its upstream call has settled and no subscriber is left, the
\* stream is completed or in error (and only a completed stream is stored).
UnsubscribedStreamFinishes ==
  \A g \in Gens :
    (calls[g].state = "settled" /\ streams[g].subscribers = {})
    => streams[g].status \in {"completed", "error"}

\* ---- the Analysis Cache ----------------------------------------------------------
\* POST /analyze/stream for one fingerprint and the one stream object that
\* serves it.  fullResponse is "json" when it parses, "text" when it does
\* not, "" when the call returned no text.
Responses == {"json", "text", ""}
DbStates == {"ok", "down"}

InsertSentenceAnalysisTwice(rows) == [rows |-> Append(rows, 1), ok |-> TRUE]

\* INSERT INTO sentence_analyses: hash is UNIQUE, access_count defaults to 1
InsertSentenceAnalysis(rows) ==
  IF rows # <<>> THEN [rows |-> rows, ok |-> FALSE]
  ELSE [rows |-> Append(rows, 1), ok |-> TRUE]

\* saveStreamCache: whatever is thrown inside is caught and null returned
SaveStreamCache(rows, fullResponse, db) ==
  IF fullResponse # "json"
    THEN [rows |-> rows, result |-> "null", failed |-> FALSE]
  ELSE IF db = "down"
    THEN [rows |-> rows, result |-> "null", failed |-> TRUE]
  ELSE LET ins == InsertSentenceAnalysis(rows)
       IN [rows |-> ins.rows, result |-> IF ins.ok THEN "analysis" ELSE "null",
           failed |-> FALSE]

\* loadStreamCache: SELECT by hash
ClientLooksUp(c) ==
  /\ clients[c].pc = "new"
  /\ IF c = 1 THEN TRUE ELSE clients[c - 1].pc # "new"
  /\ clients' = [clients EXCEPT ![c].pc = IF analyses # <<>> THEN "hit" ELSE "miss"]
  /\ UNCHANGED <<analyses, soleStream>>
  /\ UNCHANGED besidesSave

\* cache hit: incrementStreamAccess, then the replay from the record
ClientHitIncrements(c) ==
  /\ clients[c].pc = "hit"
  /\ analyses' = [k \in DOMAIN analyses |-> analyses[k] + 1]
  /\ clients' = [clients EXCEPT ![c].pc = "done", ![c].role = "cached"]
  /\ UNCHANGED soleStream
  /\ UNCHANGED besidesSave

\* cache miss: join the active stream, or getOrCreateStream and subscribe
ClientAfterMiss(c) ==
  /\ clients[c].pc = "miss"
  /\ IF soleStream.status = "active"
       THEN /\ clients' = [clients EXCEPT ![c].pc = "joined", ![c].role = "joined"]
            /\ UNCHANGED soleStream
     ELSE IF soleStream.status = "none"
       THEN /\ clients' = [clients EXCEPT ![c].pc = "awaiting", ![c].role = "owner"]
            /\ soleStream' = [soleStream EXCEPT !.status = "active"]
     ELSE /\ clients' = [clients EXCEPT ![c].pc = "awaiting", ![c].role = "late"]
          /\ UNCHANGED soleStream
  /\ UNCHANGED analyses
  /\ UNCHANGED besidesSave

\* the upstream call returned: completeStream
SoleStreamCompletes(fullResponse) ==
  /\ soleStream.status = "active"
  /\ soleStream' = [status |-> "completed", fullResponse |-> fullResponse]
  /\ UNCHANGED <<analyses, clients>>
  /\ UNCHANGED besidesSave

\* the upstream call threw: errorStream
SoleStreamErrors ==
  /\ soleStream.status = "active"
  /\ soleStream' = [soleStream EXCEPT !.status = "error"]
  /\ UNCHANGED <<analyses, clients>>
  /\ UNCHANGED besidesSave

\* a client that joined the active stream: apiCallPromise settled, no save
ClientJoinedReturns(c) ==
  /\ clients[c].pc = "joined"
  /\ soleStream.status # "active"
  /\ clients' = [clients EXCEPT ![c].pc = "done"]
  /\ UNCHANGED <<analyses, soleStream>>
  /\ UNCHANGED besidesSave

\* a client on the creating path: apiCallPromise settled; one attempt of
\* saveStreamCacheWithRetry when the stream completed with a response
ClientSaves(c, db) ==
  /\ clients[c].pc \in {"awaiting", "backoff"}
  /\ soleStream.status # "active"
  /\ IF soleStream.status = "completed" /\ soleStream.fullResponse # ""
       THEN LET saved == SaveStreamCache(analyses, soleStream.fullResponse, db)
                attempt == clients[c].attempts + 1
            IN /\ analyses' = saved.rows
               /\ clients' = [clients EXCEPT ![c] =
                    [@ EXCEPT !.pc = IF saved.result = "throws" /\ attempt < maxRetries
                                     THEN "backoff" ELSE "done",
                              !.attempts = attempt,
                              !.saveFailed = @ \/ saved.failed]]
       ELSE /\ clients' = [clients EXCEPT ![c].pc = "done"]
            /\ UNCHANGED analyses
  /\ UNCHANGED soleStream
  /\ UNCHANGED besidesSave

InitSave ==
  /\ StreamAtRest
  /\ JobsAtRest
  /\ jobs = [id \in JobIds |-> NoJob]
  /\ OthersAtRest

NextSave ==
  \/ \E c \in ClientIds : ClientLooksUp(c)
  \/ \E c \in ClientIds : ClientHitIncrements(c)
  \/ \E c \in ClientIds : ClientAfterMiss(c)
  \/ \E fullResponse \in Responses : SoleStreamCompletes(fullResponse)
  \/ SoleStreamErrors
  \/ \E c \in ClientIds : ClientJoinedReturns(c)
  \/ \E c \in ClientIds, db \in DbStates : ClientSaves(c, db)

SpecSave == InitSave /\ [][NextSave]_vars

\* ---- properties of the Analysis Cache -----------------------------------------------
AllClientsDone == \A c \in ClientIds : clients[c].pc = "done"

\* every client was served by the stream, whose response parses, and no
\* insert failed on the database
ServedByStream ==
  /\ AllClientsDone
  /\ soleStream = [status |-> "completed", fullResponse |-> "json"]
  /\ \A c \in ClientIds : clients[c].role # "cached" /\ ~clients[c].saveFailed

\* C19: the cache never holds two records of the fingerprint, and after
\* clients that were all served by the one stream (late ones included) it
\* holds exactly one record, with accessCount = 1.
OneRecordPerSharedStream ==
  /\ Len(analyses) <= 1
  /\ ServedByStream => analyses = <<1>>

\* the creating client, a joiner and a client that came after completion and
\* before the record was stored are all done
LateClientServedToo ==
  /\ ServedByStream
  /\ \E c \in ClientIds : clients[c].role = "joined"
  /\ \E c \in ClientIds : clients[c].role = "late" /\ clients[c].attempts = 1
  /\ analyses = <<1>>

\* C20: a store that failed on the database is given up only after three
\* attempts.
SaveRetriedAfterFailure ==
  \A c \in ClientIds :
    (clients[c].pc = "done" /\ clients[c].saveFailed) => clients[c].attempts = maxRetries
\* ---- the phases of a job ------------------------------------------------------------
Phases == <<"queued", "searching", "downloading", "transcribing">>

PhaseOf(status) == CHOOSE k \in DOMAIN Phases : Phases[k] = status

\* C21: before a job is completed or failed its stored status never moves
\* backward in the order queued, searching, downloading, transcribing.
StatusNeverMovesBackward ==
  [][\A id \in JobIds :
       (/\ jobs[id].status \in {Phases[k] : k \in DOMAIN Phases}
        /\ jobs'[id].status \in {Phases[k] : k \in DOMAIN Phases})
       => PhaseOf(jobs'[id].status) >= PhaseOf(jobs[id].status)]_vars
\* ---- errors inside a candidate --------------------------------------------------------
CandidatePcs == {"isVideoEmbeddable", "downloadAudio", "transcribe"}

\* the step of task h that ends while a further candidate is left
LeavesCandidateEarly(h) ==
  /\ tasks[h].pc \in CandidatePcs
  /\ tasks[h].i < tasks[h].videos
  /\ tasks'[h] # tasks[h]

\* C22: whatever a collaborator or the store throws while a candidate is
\* processed, the pipeline stays in the candidate loop while candidates are
\* left and does not fail the job; the status becomes failed only after the
\* last candidate, after a search without videos, or in the outer catch.
CandidateErrorsIsolated ==
  [][\A h \in Hashes :
       /\ LeavesCandidateEarly(h)
          => (/\ tasks'[h].pc \in CandidatePcs \cup {"insertVideoExample"}
              /\ JobStatus(jobs', h) = "failed" => JobStatus(jobs, h) = "failed")
       /\ (JobStatus(jobs', h) = "failed" /\ JobStatus(jobs, h) # "failed")
          => \/ tasks[h].pc \in {"search", "catch"}
             \/ tasks[h].pc \in CandidatePcs /\ tasks[h].i = tasks[h].videos]_vars

\* the download of candidate 1 threw and the pipeline is at candidate 2
SecondCandidateAfterFailedDownload ==
  \E id \in JobIds :
    /\ jobs[id].status = "downloading"
    /\ jobs[id].currentVideoId = 1
    /\ tasks[jobs[id].hash].pc = "isVideoEmbeddable"
    /\ tasks[jobs[id].hash].i = 2
\* ---- scratch files of a candidate (jobProcessor, audioDownload, whisper) ---------------
\* One processJob run working through its candidates.  The store is left out:
\* a throwing status write ends a candidate like a throwing collaborator.

\* cleanupTempFiles(videoId): unlinks <videoId>.mp3 and <videoId>.vtt
CleanupTempFiles(files) == [files EXCEPT !.audio = FALSE, !.vtt = FALSE]

\* cleanupChunks(chunkPaths): unlinks every chunk .mp3 and the .vtt beside it
CleanupChunks(files) == [files EXCEPT !.chunks = 0, !.chunkVtts = 0]

\* the candidate is left: `continue` or `return` of the loop body
Left(c) == [c EXCEPT !.pc = "left", !.i = 0, !.processed = 0, !.foundWord = FALSE]

\* the inner catch of processJob 262-266
CandidateCatch ==
  /\ temp' = [temp EXCEPT ![candidate.video] = CleanupTempFiles(@)]
  /\ candidate' = Left(candidate)

\* processJob 136-141: the loop takes the next video
ScratchNextCandidate ==
  /\ candidate.pc \in {"start", "left"}
  /\ candidate.video < MaxScratchVideos
  /\ candidate' = [candidate EXCEPT !.pc = "isVideoEmbeddable", !.video = @ + 1]
  /\ UNCHANGED temp
  /\ UNCHANGED besidesScratch

\* processJob 144-149: not embeddable: continue; throws: catch
ScratchEmbeddable(answer) ==
  /\ candidate.pc = "isVideoEmbeddable"
  /\ IF answer = "embeddable"
       THEN candidate' = [candidate EXCEPT !.pc = "downloadAudio"] /\ UNCHANGED temp
     ELSE IF answer = "no"
       THEN candidate' = Left(candidate) /\ UNCHANGED temp
     ELSE CandidateCatch
  /\ UNCHANGED besidesScratch

\* downloadAudio: yt-dlp wrote <videoId>.mp3, or it threw
ScratchDownload(ok) ==
  /\ candidate.pc = "downloadAudio"
  /\ IF ok
       THEN /\ temp' = [temp EXCEPT ![candidate.video].audio = TRUE]
            /\ candidate' = [candidate EXCEPT !.pc = "chunkAudio"]
       ELSE CandidateCatch
  /\ UNCHANGED besidesScratch

\* transcribeAudio 282: chunkAudio cut the audio into n files, or it threw
ScratchChunkAudio(n, ok) ==
  /\ candidate.pc = "chunkAudio"
  /\ IF ok
       THEN /\ temp' = [temp EXCEPT ![candidate.video].chunks = n]
            /\ candidate' = [candidate EXCEPT !.pc = "transcribeChunk"]
       ELSE CandidateCatch
  /\ UNCHANGED besidesScratch

\* transcribeAudio 315-333 after the chunk loop, then processJob 168-261 up to
\* getCaptions: word not found within maxChunks chunks: cleanupChunks and
\* throw; otherwise combineVTTs writes <videoId>.vtt, cleanupChunks, return
AfterChunkLoop(files, c) ==
  IF ~c.foundWord /\ c.processed >= maxChunks
    THEN [temp |-> CleanupTempFiles(CleanupChunks(files)), candidate |-> Left(c)]
    ELSE [temp |-> CleanupChunks([files EXCEPT !.vtt = TRUE]),
          candidate |-> [c EXCEPT !.pc = "getCaptions"]]

\* transcribeAudio 289-313: transcribeChunk of chunk i wrote its .vtt and the
\* word is or is not in it, or transcribeChunk threw (catch 335-338 rethrows)
ScratchTranscribeChunk(ok, contains) ==
  /\ candidate.pc = "transcribeChunk"
  /\ LET v == candidate.video
         chunksToProcess == IF temp[v].chunks <= maxChunks THEN temp[v].chunks ELSE maxChunks
     IN IF candidate.i >= chunksToProcess
          THEN LET out == AfterChunkLoop(temp[v], candidate)
               IN temp' = [temp EXCEPT ![v] = out.temp] /\ candidate' = out.candidate
        ELSE IF ~ok
          THEN CandidateCatch
        ELSE LET files == [temp[v] EXCEPT !.chunkVtts = @ + 1]
                 c == [candidate EXCEPT !.processed = @ + 1]
             IN IF contains
                  THEN IF candidate.i + 1 < temp[v].chunks
                         THEN /\ temp' = [temp EXCEPT ![v] = files]
                              /\ candidate' = [c EXCEPT !.pc = "transcribeNext",
                                                        !.foundWord = TRUE]
                         ELSE LET out == AfterChunkLoop(files, [c EXCEPT !.foundWord = TRUE])
                              IN temp' = [temp EXCEPT ![v] = out.temp]
                                 /\ candidate' = out.candidate
                  ELSE IF candidate.i + 1 < chunksToProcess
                         THEN /\ temp' = [temp EXCEPT ![v] = files]
                              /\ candidate' = [c EXCEPT !.i = @ + 1]
                         ELSE LET out == AfterChunkLoop(files, c)
                              IN temp' = [temp EXCEPT ![v] = out.temp]
                                 /\ candidate' = out.candidate
  /\ UNCHANGED besidesScratch

\* transcribeAudio 302-308: one more chunk after the word was found
ScratchTranscribeNext(ok) ==
  /\ candidate.pc = "transcribeNext"
  /\ IF ok
       THEN LET v == candidate.video
                out == AfterChunkLoop([temp[v] EXCEPT !.chunkVtts = @ + 1],
                                      [candidate EXCEPT !.processed = @ + 1])
            IN temp' = [temp EXCEPT ![v] = out.temp] /\ candidate' = out.candidate
       ELSE CandidateCatch
  /\ UNCHANGED besidesScratch

\* processJob 168-190: getCaptions, English check and match
ScratchCaptions(outcome) ==
  /\ candidate.pc = "getCaptions"
  /\ IF outcome = "match"
       THEN candidate' = [candidate EXCEPT !.pc = "updateJobResult"] /\ UNCHANGED temp
       ELSE CandidateCatch
  /\ UNCHANGED besidesScratch

\* processJob 219-261: the result is stored (or the write threw); cleanupTempFiles
ScratchStored ==
  /\ candidate.pc = "updateJobResult"
  /\ CandidateCatch
  /\ UNCHANGED besidesScratch

InitScratch ==
  /\ StreamAtRest
  /\ JobsAtRest
  /\ jobs = [id \in JobIds |-> NoJob]
  /\ OthersAtRest

NextScratch ==
  \/ ScratchNextCandidate
  \/ \E answer \in {"embeddable", "no", "throws"} : ScratchEmbeddable(answer)
  \/ \E ok \in BOOLEAN : ScratchDownload(ok)
  \/ \E n \in 1..MaxChunkFiles, ok \in BOOLEAN : ScratchChunkAudio(n, ok)
  \/ \E ok \in BOOLEAN, contains \in BOOLEAN : ScratchTranscribeChunk(ok, contains)
  \/ \E ok \in BOOLEAN : ScratchTranscribeNext(ok)
  \/ \E outcome \in {"match", "noMatch", "notEnglish", "throws"} : ScratchCaptions(outcome)
  \/ ScratchStored

SpecScratch == InitScratch /\ [][NextScratch]_vars

\* ---- properties of the scratch files -----------------------------------------------------
\* C23: whenever the pipeline has left a candidate, no scratch file of the
\* videos tried so far is in temp/.
NoScratchFileLeft ==
  candidate.pc = "left" => \A v \in 1..candidate.video : temp[v] = NoFiles
\* ---- detectSentenceBoundary (services/sentenceDetector.ts) ----------------------------
\* Strings are sequences of characters; segment indices count from 1.
SegmentTexts == {<<"a">>, <<"b", ".">>, <<" ", "a", "?", " ">>}

CaptionSegments ==
  [text : SegmentTexts, start : 0..MaxStart, duration : 0..MaxDuration]

\* the caption lists of the claim: not empty, start times non-decreasing
CaptionLists ==
  {segs \in UNION {[1..n -> CaptionSegments] : n \in 1..MaxSegments} :
     \A k \in 1..(Len(segs) - 1) : segs[k].start <= segs[k + 1].start}

Trim(s) == TrimEnd(TrimStart(s))

\* /[.!?]$/.test(segment.text.trim())
EndsSentence(text) ==
  LET trimmedText == Trim(text)
  IN trimmedText # <<>> /\ trimmedText[Len(trimmedText)] \in {".", "!", "?"}

\* 18-34: the loop that looks backward from matchIndex - 1
RECURSIVE LookBackward(_, _, _)
LookBackward(captions, i, matchIndex) ==
  IF i < 1 THEN matchIndex
  ELSE IF EndsSentence(captions[i].text) THEN i + 1
  ELSE IF i = 1 THEN 1
  ELSE LookBackward(captions, i - 1, matchIndex)

\* 36-49: the loop that looks forward from matchIndex
RECURSIVE LookForward(_, _)
LookForward(captions, i) ==
  IF EndsSentence(captions[i].text) \/ i = Len(captions) THEN i
  ELSE LookForward(captions, i + 1)

\* captionParts.join(' ')
RECURSIVE JoinParts(_, _, _)
JoinParts(captions, i, endIndex) ==
  IF i > endIndex THEN <<>>
  ELSE IF i = endIndex THEN captions[i].text
  ELSE captions[i].text \o <<" ">> \o JoinParts(captions, i + 1, endIndex)

DetectSentenceBoundary(captions, matchIndex) ==
  LET startIndex == LookBackward(captions, matchIndex - 1, matchIndex)
      endIndex   == LookForward(captions, matchIndex)
  IN [startTime |-> captions[startIndex].start,
      endTime   |-> captions[endIndex].start + captions[endIndex].duration + 2,
      caption   |-> Trim(JoinParts(captions, startIndex, endIndex))]

\* processJob 194: detectSentenceBoundary(captions, matchIndex)
DetectSentenceBoundaryCall(captions, matchIndex) ==
  /\ boundaryCall.pc = "none"
  /\ LET boundary == DetectSentenceBoundary(captions, matchIndex)
     IN boundaryCall' = [pc |-> "returned", captions |-> captions,
                         matchIndex |-> matchIndex,
                         startTime |-> boundary.startTime,
                         endTime |-> boundary.endTime,
                         caption |-> boundary.caption]
  /\ UNCHANGED besidesBoundary

InitBoundary ==
  /\ StreamAtRest
  /\ JobsAtRest
  /\ jobs = [id \in JobIds |-> NoJob]
  /\ OthersAtRest

NextBoundary ==
  \E captions \in CaptionLists : \E matchIndex \in DOMAIN captions :
    DetectSentenceBoundaryCall(captions, matchIndex)

SpecBoundary == InitBoundary /\ [][NextBoundary]_vars

\* ---- properties of detectSentenceBoundary ---------------------------------------------------
IsSubstring(needle, hay) ==
  \E k \in 0..(Len(hay) - Len(needle)) : SubSeq(hay, k + 1, k + Len(needle)) = needle

MatchedSegment == boundaryCall.captions[boundaryCall.matchIndex]

StartsBeforeMatch == boundaryCall.startTime <= MatchedSegment.start

CaptionHoldsMatch == IsSubstring(Trim(MatchedSegment.text), boundaryCall.caption)

\* C24: the returned time range contains the time range of the matched
\* segment and the returned caption contains its trimmed text.
BoundaryContainsMatch ==
  boundaryCall.pc = "returned" =>
    /\ StartsBeforeMatch
    /\ boundaryCall.endTime >= MatchedSegment.start + MatchedSegment.duration
    /\ CaptionHoldsMatch
\* ---- normalizeQuery applied twice -----------------------------------------------------------
Run(c, n) == [k \in 1..n |-> c]

\* lengths of the runs: around the limit and around half of it
RunLengths ==
  {0, 1, 2, MAX_QUERY_LENGTH \div 2, MAX_QUERY_LENGTH \div 2 + 1,
   MAX_QUERY_LENGTH, MAX_QUERY_LENGTH + 1}

QueryChars == {"a", "A", "I_dot", " ", "."}

\* the queries: a run of one character, another character after it, blanks around
QueryInputs ==
  {pre \o Run(c, n) \o mid \o suf :
     pre \in {<<>>, <<" ">>}, c \in QueryChars, n \in RunLengths,
     mid \in {<<>>, <<"a">>, <<" ", "A">>}, suf \in {<<>>, <<" ">>}}

\* POST /search: normalizeQuery(query)
NormalizeCalled(query) ==
  /\ normalizeCall.pc = "none"
  /\ normalizeCall' = [normalizeCall EXCEPT !.pc = "once", !.query = query,
                                            !.once = NormalizeQuery(query)]
  /\ UNCHANGED besidesNormalize

\* normalizeQuery applied to the canonical string of an accepted query
NormalizeAgain ==
  /\ normalizeCall.pc = "once"
  /\ normalizeCall.once.ok
  /\ normalizeCall' = [normalizeCall EXCEPT !.pc = "twice",
                         !.twice = NormalizeQuery(normalizeCall.once.normalized)]
  /\ UNCHANGED besidesNormalize

InitNormalize ==
  /\ StreamAtRest
  /\ JobsAtRest
  /\ jobs = [id \in JobIds |-> NoJob]
  /\ OthersAtRest

NextNormalize ==
  \/ \E query \in QueryInputs : NormalizeCalled(query)
  \/ NormalizeAgain

SpecNormalize == InitNormalize /\ [][NextNormalize]_vars

\* C25: normalizeQuery applied to the canonical string of an accepted query
\* succeeds and returns the same canonical string and the same kind.
NormalizeIsIdempotent ==
  normalizeCall.pc = "twice" =>
    /\ normalizeCall.twice.ok
    /\ normalizeCall.twice.normalized = normalizeCall.once.normalized
    /\ normalizeCall.twice.type = normalizeCall.once.type
\* ---- cache keys of two analysis requests ----------------------------------------------------
\* an optional string parameter: given = FALSE stands for undefined
Absent == [given |-> FALSE, text |-> <<>>]
Given(text) == [given |-> TRUE, text |-> text]

\* the before- and after-context of the requests
ContextPairs ==
  {<<Absent, Absent>>, <<Given(<<>>), Given(<<>>)>>, <<Given(<<"a">>), Absent>>,
   <<Absent, Given(<<"A">>)>>, <<Given(<<" ">>), Given(<<"a">>)>>,
   <<Given(<<"|">>), Absent>>, <<Absent, Given(<<"|">>)>>}

\* the analysis requests: language codes are one character long
AnalysisRequests ==
  {[sentence |-> s, targetWord |-> w, targetLanguage |-> t, nativeLanguage |-> <<"b">>,
    contextBefore |-> c[1], contextAfter |-> c[2]] :
     s \in {<<"a">>, <<"A", " ">>, <<"|">>}, w \in {<<"a">>, <<" ", "A">>},
     t \in {<<"a">>, <<"A">>}, c \in ContextPairs}

\* s.trim().toLowerCase()
TrimLower(s) == ToLowerCaseString(TrimEnd(TrimStart(s)))

\* c?.trim().toLowerCase() || ''
TrimLowerOrEmpty(c) == IF c.given THEN TrimLower(c.text) ELSE <<>>

\* Array.prototype.join('|')
RECURSIVE Join(_)
Join(parts) ==
  IF Len(parts) = 0 THEN <<>>
  ELSE IF Len(parts) = 1 THEN parts[1]
  ELSE parts[1] \o <<"|">> \o Join(Tail(parts))

\* the six normalized fields of a request, in the order of the key
NormalizedFields(r) ==
  <<TrimLower(r.sentence), TrimLower(r.targetWord), TrimLower(r.targetLanguage),
    TrimLower(r.nativeLanguage), TrimLowerOrEmpty(r.contextBefore),
    TrimLowerOrEmpty(r.contextAfter)>>

\* services/streamCache.ts generateStreamCacheKey
GenerateStreamCacheKey(r) == GenerateHash(Join(NormalizedFields(r)))

\* services/sentenceAnalysis.ts generateCacheKey
GenerateCacheKey(r) == GenerateHash(Join(NormalizedFields(r)))

\* POST /analyze/stream computes the key of a request
StreamKeyGenerated(r) ==
  /\ Len(keyCalls) < 2
  /\ keyCalls' = Append(keyCalls, [req |-> r, via |-> "stream",
                                   key |-> GenerateStreamCacheKey(r)])
  /\ UNCHANGED besidesCacheKey

\* analyzeSentence computes the key of a request
CacheKeyGenerated(r) ==
  /\ Len(keyCalls) < 2
  /\ keyCalls' = Append(keyCalls, [req |-> r, via |-> "plain",
                                   key |-> GenerateCacheKey(r)])
  /\ UNCHANGED besidesCacheKey

InitCacheKey ==
  /\ StreamAtRest
  /\ JobsAtRest
  /\ jobs = [id \in JobIds |-> NoJob]
  /\ OthersAtRest

NextCacheKey ==
  \/ \E r \in AnalysisRequests : StreamKeyGenerated(r)
  \/ \E r \in AnalysisRequests : CacheKeyGenerated(r)

SpecCacheKey == InitCacheKey /\ [][NextCacheKey]_vars

\* equal normalized tuples get the same key
EqualTuplesShareKey ==
  Len(keyCalls) = 2 =>
    (NormalizedFields(keyCalls[1].req) = NormalizedFields(keyCalls[2].req)
       => keyCalls[1].key = keyCalls[2].key)

\* C26: two requests get the same cache key exactly when their six normalized
\* fields are equal field by field.
SameKeyOnlyForSameFields ==
  /\ EqualTuplesShareKey
  /\ Len(keyCalls) = 2 =>
       (keyCalls[1].key = keyCalls[2].key
          => NormalizedFields(keyCalls[1].req) = NormalizedFields(keyCalls[2].req))
\* ---- the upstream AI call and its retries ---------------------------------------------------
\* the errors an attempt can throw: status 0 stands for an error without status;
\* 'Request timeout' is the error of the timeout promise
ApiErrors ==
  {[status |-> s, message |-> "api"] : s \in {400, 401, 404, 429, 500, 599}}
    \cup {[status |-> 0, message |-> "Request timeout"],
          [status |-> 0, message |-> "socket hang up"]}

\* claude.ts 205-208: shouldRetry
ShouldRetry(error) ==
  \/ error.status = 429
  \/ (error.status >= 500 /\ error.status < 600)
  \/ error.message = "Request timeout"

RECURSIVE Pow2(_)
Pow2(n) == IF n = 0 THEN 1 ELSE 2 * Pow2(n - 1)

\* analyzeSentenceWithClaude 241: callClaudeAPIWithRetry(prompt)
CallClaudeAPIWithRetry ==
  /\ aiCall.pc = "none"
  /\ aiCall' = [aiCall EXCEPT !.kind = "plain", !.pc = "calling", !.attempt = 1]
  /\ UNCHANGED besidesUpstream

\* callClaudeAPIWithRetry 175-189: the response wins the race
ResponseArrives ==
  /\ aiCall.kind = "plain"
  /\ aiCall.pc = "calling"
  /\ aiCall' = [aiCall EXCEPT !.pc = "returned"]
  /\ UNCHANGED besidesUpstream

\* callClaudeAPIWithRetry 191-216: the catch block of one attempt
AttemptFails(error) ==
  /\ aiCall.kind = "plain"
  /\ aiCall.pc = "calling"
  /\ LET isLastAttempt == aiCall.attempt = claudeMaxRetries
         thrown == \/ error.status = 400
                   \/ error.status = 401
                   \/ ~ShouldRetry(error)
                   \/ isLastAttempt
     IN  aiCall' = [aiCall EXCEPT
           !.errors = Append(@, error),
           !.pc = IF thrown THEN "threw" ELSE "waiting",
           !.waits = IF thrown THEN @
                     ELSE Append(@, baseDelay * Pow2(aiCall.attempt - 1))]
  /\ UNCHANGED besidesUpstream

\* callClaudeAPIWithRetry 217 and 174: the wait ends, the next attempt starts
BackoffEnds ==
  /\ aiCall.pc = "waiting"
  /\ aiCall' = [aiCall EXCEPT !.pc = "calling", !.attempt = @ + 1]
  /\ UNCHANGED besidesUpstream

\* analyzeSentenceWithClaudeStream 247-274: the streaming request is sent
AnalyzeSentenceWithClaudeStream ==
  /\ aiCall.pc = "none"
  /\ aiCall' = [aiCall EXCEPT !.kind = "stream", !.pc = "calling", !.attempt = 1]
  /\ UNCHANGED besidesUpstream

\* analyzeSentenceWithClaudeStream 276-284: the stream ends
StreamReturns ==
  /\ aiCall.kind = "stream"
  /\ aiCall.pc = "calling"
  /\ aiCall' = [aiCall EXCEPT !.pc = "returned"]
  /\ UNCHANGED besidesUpstream

\* analyzeSentenceWithClaudeStream 285-294: the catch block
StreamFails(error) ==
  /\ aiCall.kind = "stream"
  /\ aiCall.pc = "calling"
  /\ aiCall' = [aiCall EXCEPT !.errors = Append(@, error), !.pc = "threw"]
  /\ UNCHANGED besidesUpstream

InitUpstream ==
  /\ StreamAtRest
  /\ JobsAtRest
  /\ jobs = [id \in JobIds |-> NoJob]
  /\ OthersAtRest

NextUpstream ==
  \/ CallClaudeAPIWithRetry
  \/ ResponseArrives
  \/ \E error \in ApiErrors : AttemptFails(error)
  \/ BackoffEnds
  \/ AnalyzeSentenceWithClaudeStream
  \/ StreamReturns
  \/ \E error \in ApiErrors : StreamFails(error)

SpecUpstream == InitUpstream /\ [][NextUpstream]_vars

\* rate limit, 5xx, timeout
Transient(error) ==
  \/ error.status = 429
  \/ (error.status >= 500 /\ error.status < 600)
  \/ error.message = "Request timeout"

\* no attempt follows a failure with status 400 or 401
NeverRetriedOnBadRequest ==
  \A k \in 1..Len(aiCall.errors) :
    aiCall.errors[k].status \in {400, 401} =>
      k = Len(aiCall.errors) /\ aiCall.pc = "threw"

\* the waits taken are the first of 1 s, 2 s, 4 s
WaitsDouble ==
  /\ Len(aiCall.waits) <= 3
  /\ \A k \in 1..Len(aiCall.waits) : aiCall.waits[k] = 1000 * Pow2(k - 1)

\* C27: a call gives up on a transient failure only after 3 retries that
\* waited 1 s, 2 s and 4 s, and never retries after status 400 or 401, be it the
\* streaming or the non-streaming call.
TransientFailuresRetried ==
  /\ NeverRetriedOnBadRequest
  /\ WaitsDouble
  /\ (aiCall.pc = "threw" /\ Transient(aiCall.errors[Len(aiCall.errors)]))
       => Len(aiCall.waits) = 3
\* ---- removal by the cleanup timers ----------------------------------------------------------
\* a timer of scheduleCleanup or of errorStream fires and takes the stream of
\* the fingerprint out of the registry
TimerRemovesStream ==
  /\ cleanupTimers' < cleanupTimers \/ errorTimers' < errorTimers
  /\ registry # 0
  /\ registry' = 0

\* a timer takes an active stream out of the registry
TimerRemovesActiveStream ==
  TimerRemovesStream /\ streams[registry].status = "active"

\* C28: a cleanup timer removes a stream only if the stream is in a terminal
\* status and has no subscribers at that moment; it never removes an active
\* stream registered later under the fingerprint.
TimerRemovesOnlyIdleTerminal ==
  [][/\ ~TimerRemovesActiveStream
     /\ TimerRemovesStream
          => /\ streams[registry].status \in {"completed", "error"}
             /\ streams[registry].subscribers = {}]_vars
\* ---- overflow eviction on the listed registry -----------------------------------------------
\* the streams a registry can hold: status and number of subscribers
StreamKinds ==
  {[status |-> st[1], subscribers |-> st[2]] :
     st \in {<<"completed", 0>>, <<"completed", 1>>, <<"active", 1>>,
             <<"active", 0>>, <<"error", 0>>}}

Motifs == UNION {[1..n -> StreamKinds] : n \in 1..MaxMotif}

RegistrySizes == {MAX_ACTIVE_STREAMS, MAX_ACTIVE_STREAMS + 1}

\* the map in insertion order, which is the order of the createStream calls:
\* the motif repeated. createdAt is Date.now() in milliseconds, two streams to
\* a millisecond; the wall clock was set back by `size` milliseconds before
\* the stream at place `setBack` was created (1: the clock was never set back)
FullRegistry(motif, size, setBack) ==
  [k \in 1..size |->
     LET kind == motif[((k - 1) % Len(motif)) + 1]
     IN  [key |-> k, status |-> kind.status, subscribers |-> kind.subscribers,
          createdAt |-> (k \div 2) + (IF k < setBack THEN size ELSE 0)]]

\* the positions of the map that filter (484-485) keeps, in map order
CompletedIdle(map) ==
  SelectSeq(map, LAMBDA s : s.status = "completed" /\ s.subscribers = 0)

\* the streams of the list created from millisecond lo to millisecond hi, by
\* creation time, streams of one millisecond in the order of the list
RECURSIVE CreatedBetween(_, _, _)
CreatedBetween(list, lo, hi) ==
  IF lo = hi THEN SelectSeq(list, LAMBDA s : s.createdAt = lo)
  ELSE CreatedBetween(list, lo, (lo + hi) \div 2)
         \o CreatedBetween(list, (lo + hi) \div 2 + 1, hi)

\* Array.prototype.sort by createdAt (486): stable, equal times keep map order
SortByCreatedAt(list) ==
  LET times == {list[i].createdAt : i \in 1..Len(list)}
  IN  IF times = {} THEN <<>>
      ELSE CreatedBetween(list, CHOOSE t \in times : \A u \in times : t <= u,
                                CHOOSE t \in times : \A u \in times : t >= u)

\* cleanupOldestCompletedStreams with the sort left out
CleanupOldestUnsorted(map) ==
  LET completedStreams == CompletedIdle(map)
      toRemove == Max2(1, Len(completedStreams) \div 10)
  IN  SubSeq(completedStreams, 1, Min2(toRemove, Len(completedStreams)))

\* cleanupOldestCompletedStreams 483-495: the streams deleted, in the order of
\* the delete calls
CleanupOldestCompletedStreams(map) ==
  LET completedStreams == SortByCreatedAt(CompletedIdle(map))
      toRemove == Max2(1, Len(completedStreams) \div 10)
  IN  SubSeq(completedStreams, 1, Min2(toRemove, Len(completedStreams)))

\* createStream 208-229 for a key the map does not hold
CreateStreamListed(map) ==
  /\ evictCall.pc = "none"
  /\ LET removed == IF Len(map) >= MAX_ACTIVE_STREAMS
                    THEN CleanupOldestCompletedStreams(map) ELSE <<>>
         gone    == {removed[i].key : i \in 1..Len(removed)}
         created == [key |-> 0, status |-> "active", subscribers |-> 0,
                     createdAt |-> 2 * Len(map) + 1]
     IN  evictCall' = [pc |-> "created", before |-> map, removed |-> removed,
                       after |-> Append(SelectSeq(map, LAMBDA s : s.key \notin gone),
                                        created)]
  /\ UNCHANGED besidesEviction

\* the call is over and the next one is looked at
EvictCallForgotten ==
  /\ evictCall.pc = "created"
  /\ evictCall' = NoEvictCall
  /\ UNCHANGED besidesEviction

InitEviction ==
  /\ StreamAtRest
  /\ JobsAtRest
  /\ jobs = [id \in JobIds |-> NoJob]
  /\ OthersAtRest

NextEviction ==
  \/ \E motif \in Motifs, size \in RegistrySizes :
       \E setBack \in {1, size \div 2, size} :
         CreateStreamListed(FullRegistry(motif, size, setBack))
  \/ EvictCallForgotten

SpecEviction == InitEviction /\ [][NextEviction]_vars

\* the streams of the map before the call that the map after it lacks
EvictedStreams ==
  LET kept == {evictCall.after[j].key : j \in 1..Len(evictCall.after)}
  IN  {s \in {evictCall.before[i] : i \in 1..Len(evictCall.before)} : s.key \notin kept}

\* the completed streams without subscribers the map held before the call
IdleBefore ==
  {s \in {evictCall.before[i] : i \in 1..Len(evictCall.before)} :
     s.status = "completed" /\ s.subscribers = 0}

\* C29: overflow eviction removes only completed streams without subscribers,
\* oldest first, at most max(1, floor(10%)) of them, and no other stream.
EvictionTakesOldestIdle ==
  evictCall.pc = "created" =>
    LET evicted == EvictedStreams
        idle    == IdleBefore
        spared  == idle \ evicted
    IN  /\ evicted \subseteq idle
        /\ evicted = {evictCall.removed[i] : i \in 1..Len(evictCall.removed)}
        /\ Cardinality(evicted) <= Max2(1, Cardinality(idle) \div 10)
        /\ \A i, j \in 1..Len(evictCall.removed) :
             i < j => evictCall.removed[i].createdAt <= evictCall.removed[j].createdAt
        /\ \A s \in evicted : \A t \in spared : s.createdAt <= t.createdAt

\* several streams were evicted from a map that also held younger idle streams
\* earlier in map order, and active and subscribed streams
SeveralEvictedOutOfMapOrder ==
  /\ evictCall.pc = "created"
  /\ Cardinality(EvictedStreams) > 1
  /\ evictCall.before[1].status = "completed"
  /\ evictCall.before[1].subscribers = 0
  /\ evictCall.before[1] \notin EvictedStreams
  /\ \E i \in 1..Len(evictCall.before) : evictCall.before[i].status = "completed"
                                           /\ evictCall.before[i].subscribers = 0
                                           /\ evictCall.before[i] \in EvictedStreams
\* ---- continuations of the worker loop -------------------------------------------------------
\* C30: while the worker is running, at most one continuation of workerLoop
\* is pending: a scheduled timer or immediate, or a loop awaiting getQueuedJobs.
SingleWorkerLoop == isRunning => Loops <= 1
\* ---- stopping the worker --------------------------------------------------------------------
\* stopBackgroundWorker 106-119: clearTimeout(workerInterval) cancels the timer
\* set last if it is still pending (`cleared` = 1), no immediate and no loop
\* that awaits getQueuedJobs
StopBackgroundWorker(cleared) ==
  /\ isRunning
  /\ isRunning' = FALSE
  /\ cleared <= scheduledLoops
  /\ scheduledLoops' = scheduledLoops - cleared
  /\ UNCHANGED <<jobs, segments, reqs, awaitingLoops, runningJobs, tasks>>
  /\ UNCHANGED <<svars, ovars>>

\* the worker is restarted while fewer than MaxLoops continuations are pending
NextStop ==
  \/ Loops < MaxLoops /\ StartBackgroundWorker
  \/ \E cleared \in {0, 1} : StopBackgroundWorker(cleared)
  \/ WorkerLoopFires
  \/ \E snapshot \in BagToSet(awaitingLoops) : WorkerLoopResumes(snapshot)
  \/ \E h \in Hashes : ProcessJobSearching(h, StoreWorks)
  \/ \E h \in 1..NumReturning : ProcessJobSearch(h, {0}, StoreWorks)
  \/ \E h \in Hashes : ProcessJobCatch(h, StoreWorks)

SpecStop == InitBacklog /\ [][NextStop]_vars

\* C31: while the worker is stopped no job is dispatched, also when a
\* workerLoop invocation was awaiting getQueuedJobs when the worker stopped.
StoppedWorkerDispatchesNothing ==
  [][~isRunning => runningJobs' \subseteq runningJobs]_vars
\* ---- the 15-minute limit of a job -----------------------------------------------------------
\* the milliseconds a phase of the job can take
Durations == {0, JOB_TIMEOUT_MS \div 2, JOB_TIMEOUT_MS, JOB_TIMEOUT_MS + 1}

\* processJob 90-133: startTime is taken, the status becomes searching and the
\* search, which takes d milliseconds, finds `videos` candidates
TimedJobSearched(videos, d) ==
  /\ timedJob.pc = "idle"
  /\ timedJob' = [timedJob EXCEPT !.pc = "head", !.i = 1, !.videos = videos,
                                  !.elapsed = d, !.status = "searching"]
  /\ UNCHANGED besidesTimeout

\* processJob 136-137 and 93-97: checkTimeout at the head of the loop
TimedCandidateHead ==
  /\ timedJob.pc = "head"
  /\ timedJob' = IF timedJob.elapsed > JOB_TIMEOUT_MS
                 THEN [timedJob EXCEPT !.pc = "catch", !.overdue = TRUE,
                                       !.error = "Job timeout",
                                       !.begunInTime = timedJob.begun]
                 ELSE [timedJob EXCEPT !.pc = "candidate", !.begun = @ + 1]
  /\ UNCHANGED besidesTimeout

\* processJob 139-267: the candidate takes d milliseconds; it is skipped or
\* fails (262-266), or its match is stored (245-257), or a write of the store
\* throws outside the inner try (270-274)
TimedCandidateEnds(d, outcome, o) ==
  /\ timedJob.pc = "candidate"
  /\ timedJob' =
       IF outcome = "found"
       THEN [timedJob EXCEPT !.pc = "ended", !.elapsed = @ + d, !.status = "completed"]
       ELSE IF timedJob.i < timedJob.videos
       THEN [timedJob EXCEPT !.pc = "head", !.elapsed = @ + d, !.i = @ + 1,
                             !.status = "transcribing"]
       ELSE IF o = "ok"
       THEN [timedJob EXCEPT !.pc = "ended", !.elapsed = @ + d, !.status = "failed",
                             !.error = "No English video found"]
       ELSE [timedJob EXCEPT !.pc = "catch", !.elapsed = @ + d,
                             !.status = "transcribing", !.error = "store"]
  /\ UNCHANGED besidesTimeout

\* processJob 275-278: updateJobError(hash, error.message), which may throw
TimedJobCatch(o) ==
  /\ timedJob.pc = "catch"
  /\ timedJob' = IF o = "ok"
                 THEN [timedJob EXCEPT !.pc = "ended", !.status = "failed"]
                 ELSE [timedJob EXCEPT !.pc = "ended"]
  /\ UNCHANGED besidesTimeout

InitTimeout ==
  /\ StreamAtRest
  /\ JobsAtRest
  /\ jobs = [id \in JobIds |-> NoJob]
  /\ OthersAtRest

NextTimeout ==
  \/ \E videos \in 1..MaxTimedVideos, d \in Durations : TimedJobSearched(videos, d)
  \/ TimedCandidateHead
  \/ \E d \in Durations, outcome \in {"next", "found"}, o \in StoreMayFail :
       TimedCandidateEnds(d, outcome, o)
  \/ \E o \in StoreMayFail : TimedJobCatch(o)

SpecTimeout == InitTimeout /\ [][NextTimeout]_vars

\* once the limit was found exceeded at the head of the loop, no candidate is begun
NoCandidateAfterTimeout ==
  timedJob.overdue => timedJob.begun = timedJob.begunInTime

\* C32: a job found more than 15 minutes old at the head of the candidate
\* loop ends as failed with the timeout message, and no further candidate is
\* processed.
TimeoutFailsJob ==
  /\ NoCandidateAfterTimeout
  /\ (timedJob.pc = "ended" /\ timedJob.overdue)
       => timedJob.status = "failed" /\ timedJob.error = "Job timeout"
\* ---- a job whose search finds no video ------------------------------------------------------
\* POST /search with jobId, routes/youtubeSearch.ts 69-104: the answer to a
\* poll for the job of row id
PollByJobId(js, id) ==
  IF js[id].status = "none" THEN [code |-> 404, status |-> "", error |-> "Job not found"]
  ELSE IF js[id].status = "completed" /\ js[id].result # NoResult
  THEN [code |-> 200, status |-> "completed", error |-> ""]
  ELSE IF js[id].status = "failed"
  THEN [code |-> 200, status |-> "failed",
        error |-> IF js[id].error # "" THEN js[id].error ELSE "Job processing failed"]
  ELSE [code |-> 200, status |-> js[id].status, error |-> ""]

NoVideosFailure ==
  [code |-> 200, status |-> "failed", error |-> "No videos found for this query"]

\* the job of row id gets the error of the empty search from status searching
FailsFromSearching(id) ==
  (PollByJobId(jobs, id) # NoVideosFailure /\ PollByJobId(jobs', id) = NoVideosFailure)
    => jobs[id].status = "searching"

\* a job of a catalog without videos never has status downloading or transcribing
NeverPastSearching ==
  \A id \in JobIds : jobs[id].status \notin {"downloading", "transcribing"}

\* C33: when no search strategy returns a video, the job goes from searching
\* directly to failed with 'No videos found for this query', is never
\* downloading or transcribing, and every later poll with its jobId is
\* answered failed with that error.
NoVideosFailsForGood ==
  [][\A id \in JobIds :
       /\ FailsFromSearching(id)
       /\ jobs'[id].status \notin {"downloading", "transcribing"}
       /\ PollByJobId(jobs, id) = NoVideosFailure
            => PollByJobId(jobs', id) = NoVideosFailure]_vars

\* the first two parts of C33 alone
NoVideosFailsDirectly ==
  [][\A id \in JobIds :
       /\ FailsFromSearching(id)
       /\ jobs'[id].status \notin {"downloading", "transcribing"}]_vars
\* ---- a failed job and the requests that follow ------------------------------------------------
\* C39: once a job has failed, every /search request for its query, with or
\* without jobId, is answered with that failed job and its error, no other
\* job is enqueued for the fingerprint and the pipeline is not run for it
\* again.
FailedJobIsFinal ==
  [][\A id \in JobIds :
       jobs[id].status = "failed" =>
         /\ PollByJobId(jobs', id) = PollByJobId(jobs, id)
         /\ \A r \in ReqIds :
              (reqs[r].pc \in {"new", "findJobByHash"} /\ reqs'[r].pc = "done"
                 /\ reqs'[r].hash = jobs[id].hash)
                => /\ reqs'[r].resp.status = "failed"
                   /\ reqs'[r].resp.jobId = <<"job", id>>
         /\ \A other \in JobIds \ {id} : jobs'[other].hash # jobs[id].hash
         /\ jobs[id].hash \notin runningJobs' \ runningJobs]_vars

\* the parts of C39 that do not depend on the worker: the answer of the
\* existing-job branch while the job is failed, and the single job per hash
FailedJobAnsweredWhileFailed ==
  [][\A id \in JobIds :
       jobs[id].status = "failed" =>
         /\ \A r \in ReqIds :
              (reqs[r].pc = "findJobByHash" /\ reqs'[r].pc = "done"
                 /\ reqs'[r].hash = jobs[id].hash)
                => /\ reqs'[r].resp.status = "failed"
                   /\ reqs'[r].resp.jobId = <<"job", id>>
         /\ \A other \in JobIds \ {id} : jobs'[other].hash # jobs[id].hash]_vars

\* ---- the candidate list of the SEARCHING phase ----------------------------------------------
\* the lists of video ids searchVideos can return for one request (maxResults 5)
CatalogLists ==
  {<<>>, <<1, 1>>, <<1, 2, 3, 4, 5>>, <<4, 5, 6, 7, 8>>, <<6, 7, 8, 9, 10>>,
   <<11, 12, 13, 14, 15>>}

Ids(list) == {list[k] : k \in 1..Len(list)}

IsUnique(list) == \A i, j \in 1..Len(list) : list[i] = list[j] => i = j

\* processJob 107-109: the job enters the loop over its strategies
SearchStarts ==
  /\ searchRun.pc = "idle"
  /\ searchRun' = [searchRun EXCEPT !.pc = "searching", !.strategy = 1, !.filter = 1]
  /\ UNCHANGED besidesCandidates

\* processJob 115-125 with the list searchVideosWithAdFilters returned for the
\* strategy: the videos not yet in allVideos are appended; the loop ends at
\* EnoughVideos videos or after the last strategy
StrategyReturned(run, videos) ==
  LET existingIds == Ids(run.allVideos)
      newVideos   == SelectSeq(videos, LAMBDA v : v \notin existingIds)
      allVideos   == run.allVideos \o newVideos
      over        == Len(allVideos) >= EnoughVideos \/ run.strategy = NumStrategies
  IN  [run EXCEPT !.allVideos = allVideos,
                  !.found = <<>>, !.seenIds = {},
                  !.pc = IF over THEN "done" ELSE "searching",
                  !.strategy = IF over THEN @ ELSE @ + 1,
                  !.filter = IF over THEN 0 ELSE 1,
                  !.queriedWhenFull =
                     @ \/ (~over /\ Cardinality(Ids(allVideos)) >= EnoughVideos)]

\* searchVideosWithAdFilters 84-112 for one filter: searchVideos returned
\* `videos` (91-105) or threw (106-109); after the last filter or at
\* targetResults videos the list is cut and returned to processJob
FilterAnswered(videos, threw) ==
  /\ searchRun.pc = "searching"
  /\ LET newVideos == IF threw THEN <<>>
                      ELSE SelectSeq(videos, LAMBDA v : v \notin searchRun.seenIds)
         found     == searchRun.found \o newVideos
         over      == (~threw /\ Len(found) >= targetResults)
                        \/ searchRun.filter = NumFilters
     IN  searchRun' =
           IF over
           THEN StrategyReturned(searchRun,
                                 SubSeq(found, 1, Min2(targetResults, Len(found))))
           ELSE [searchRun EXCEPT !.found = found,
                                  !.seenIds = @ \cup Ids(newVideos),
                                  !.filter = @ + 1]
  /\ UNCHANGED besidesCandidates

InitCandidates ==
  /\ StreamAtRest
  /\ JobsAtRest
  /\ jobs = [id \in JobIds |-> NoJob]
  /\ OthersAtRest

NextCandidates ==
  \/ SearchStarts
  \/ \E videos \in CatalogLists, threw \in BOOLEAN : FilterAnswered(videos, threw)

SpecCandidates == InitCandidates /\ [][NextCandidates]_vars

\* no strategy is queried once EnoughVideos unique candidates are collected
StopsAtEnoughVideos == ~searchRun.queriedWhenFull

\* C34: the candidate list holds each video id at most once, whatever the
\* catalog returns, and no further strategy is queried once 10 unique
\* candidates are collected.
CandidatesUnique ==
  /\ IsUnique(searchRun.allVideos)
  /\ StopsAtEnoughVideos
\* ---- transcribeAudio: chunks and early stop -------------------------------------------------
\* Chunks are numbered from 0 as in the code; processedVTTs lists the numbers
\* of the chunks transcribed, in the order of the transcribeChunk calls.

\* a loop that goes through all the chunks of the audio
ChunksToProcessAll(n) == n

\* transcribeAudio 288: Math.min(chunkPaths.length, maxChunks)
ChunksToProcess(n) == Min2(n, maxChunks)

\* transcribeAudio 315-334 after the loop: the word was not found within
\* maxChunks chunks (throw), or the VTTs are combined and returned
AfterChunks(t) ==
  [t EXCEPT !.pc = IF ~t.foundWord /\ Len(t.processedVTTs) >= maxChunks
                   THEN "threw" ELSE "returned"]

\* the head of the for loop, 289
LoopHead(t) ==
  IF t.i < ChunksToProcess(t.chunkPaths) THEN [t EXCEPT !.pc = "transcribeChunk"]
  ELSE AfterChunks(t)

\* transcribeAudio 282-289: chunkAudio cut the audio into n chunks
ChunkAudioReturns(n) ==
  /\ transcription.pc = "idle"
  /\ transcription' = LoopHead([transcription EXCEPT !.chunkPaths = n])
  /\ UNCHANGED besidesTranscription

\* transcribeAudio 293-313: transcribeChunk(chunkPaths[i]) returned and its
\* captions do or do not contain the search term
ChunkTranscribed(contains) ==
  /\ transcription.pc = "transcribeChunk"
  /\ LET t == [transcription EXCEPT !.processedVTTs = Append(@, transcription.i)]
     IN  transcription' =
           IF contains
           THEN IF t.i + 1 < t.chunkPaths
                THEN [t EXCEPT !.foundWord = TRUE, !.foundAt = t.i, !.pc = "transcribeNext"]
                ELSE AfterChunks([t EXCEPT !.foundWord = TRUE, !.foundAt = t.i])
           ELSE LoopHead([t EXCEPT !.i = @ + 1])
  /\ UNCHANGED besidesTranscription

\* transcribeAudio 305-309: transcribeChunk(chunkPaths[i + 1]) returned
NextChunkTranscribed ==
  /\ transcription.pc = "transcribeNext"
  /\ transcription' =
       AfterChunks([transcription EXCEPT !.processedVTTs = Append(@, transcription.i + 1)])
  /\ UNCHANGED besidesTranscription

\* transcribeChunk threw: catch 335-338 rethrows
TranscribeChunkThrows ==
  /\ transcription.pc \in {"transcribeChunk", "transcribeNext"}
  /\ transcription' = [transcription EXCEPT !.pc = "threw"]
  /\ UNCHANGED besidesTranscription

InitChunks ==
  /\ StreamAtRest
  /\ JobsAtRest
  /\ jobs = [id \in JobIds |-> NoJob]
  /\ OthersAtRest

NextChunks ==
  \/ \E n \in 0..MaxAudioChunks : ChunkAudioReturns(n)
  \/ \E contains \in BOOLEAN : ChunkTranscribed(contains)
  \/ NextChunkTranscribed
  \/ TranscribeChunkThrows

SpecChunks == InitChunks /\ [][NextChunks]_vars

\* C35: chunks are transcribed in index order; after the first chunk that
\* holds the phrase exactly one more chunk is transcribed when it exists and
\* none after it; 10 chunks without a hit make the call fail; never more than
\* 11 chunks are transcribed.
OneMoreChunkThenStop ==
  LET log == transcription.processedVTTs
  IN  /\ \A k \in 1..Len(log) : log[k] = k - 1
      /\ Len(log) <= 11
      /\ (transcription.pc = "returned" /\ transcription.foundWord)
           => /\ transcription.foundAt < 10
              /\ Len(log) = transcription.foundAt + 1
                            + (IF transcription.foundAt + 1 < transcription.chunkPaths
                               THEN 1 ELSE 0)
      /\ (~transcription.foundWord /\ Len(log) >= 10)
           => transcription.pc = "threw"

\* the phrase was in the tenth chunk and the eleventh was transcribed as well
EleventhChunkTranscribed ==
  /\ transcription.pc = "returned"
  /\ transcription.foundAt = 9
  /\ Len(transcription.processedVTTs) = 11
\* ---- findMatchingSegment --------------------------------------------------------------------
\* Texts are sequences of characters; indices are those of the code, from 0.

\* \w of the regular expressions
IsWordChar(c) == c \in {"a", "A", "d", "e", "g", "i", "n", "o", "t"}

\* String.prototype.includes
Includes(text, q) ==
  \E p \in 1..(Len(text) - Len(q) + 1) : SubSeq(text, p, p + Len(q) - 1) = q

\* \b before place p of the text (p = Len(text) + 1: at the end)
BoundaryAt(text, p) ==
  (p > 1 /\ IsWordChar(text[p - 1])) # (p <= Len(text) /\ IsWordChar(text[p]))

\* new RegExp(`\\b${q}\\b`).test(text)
WordRegexTest(text, q) ==
  \E p \in 1..(Len(text) - Len(q) + 1) :
    /\ SubSeq(text, p, p + Len(q) - 1) = q
    /\ BoundaryAt(text, p)
    /\ BoundaryAt(text, p + Len(q))

\* new RegExp(`\\b${v}\\w*\\b`).test(text)
VariationRegexTest(text, v) ==
  \E p \in 1..(Len(text) - Len(v) + 1) :
    /\ SubSeq(text, p, p + Len(v) - 1) = v
    /\ BoundaryAt(text, p)
    /\ \E e \in (p + Len(v) - 1)..Len(text) :
         /\ \A k \in (p + Len(v))..e : IsWordChar(text[k])
         /\ BoundaryAt(text, e + 1)

EndsWith(word, suffix) ==
  Len(word) >= Len(suffix)
    /\ SubSeq(word, Len(word) - Len(suffix) + 1, Len(word)) = suffix

\* word.slice(0, -n)
DropLast(word, n) == SubSeq(word, 1, Len(word) - n)

\* getWordVariations 75-103
GetWordVariations(word) ==
  {word}
    \cup (IF EndsWith(word, <<"e">>)
          THEN {DropLast(word, 1) \o <<"i", "n", "g">>, word \o <<"d">>} ELSE {})
    \cup (IF EndsWith(word, <<"t">>)
          THEN {word \o <<"i", "o", "n">>, word \o <<"e", "d">>, word \o <<"i", "n", "g">>}
          ELSE {})
    \cup (IF EndsWith(word, <<"i", "o", "n">>)
          THEN {DropLast(word, 3), DropLast(word, 3) \o <<"i", "n", "g">>} ELSE {})
    \cup (IF EndsWith(word, <<"i", "n", "g">>)
          THEN {DropLast(word, 3), DropLast(word, 3) \o <<"i", "o", "n">>} ELSE {})
    \cup (IF EndsWith(word, <<"e", "d">>) THEN {DropLast(word, 2)} ELSE {})

\* query.split(/\s+/): the words of a query without blanks at its ends
RECURSIVE SplitWords(_, _)
SplitWords(q, word) ==
  IF q = <<>> THEN {word}
  ELSE IF Head(q) \in Whitespace
    THEN {word} \cup SplitWords(TrimStart(q), <<>>)
  ELSE SplitWords(Tail(q), Append(word, Head(q)))

\* phraseMatchWithVariations 106-124
PhraseMatchWithVariations(text, query) ==
  \A queryWord \in SplitWords(ToLowerCaseString(query), <<>>) :
    \E variation \in GetWordVariations(queryWord) :
      VariationRegexTest(ToLowerCaseString(text), variation)

\* segments.slice(i, Math.min(i + 3, segments.length)).map(s => s.text).join(' ')
ContextText(captions, i) ==
  LET last == Min2(i + 3, Len(captions))
      Glue[k \in (i + 1)..last] ==
        IF k = i + 1 THEN captions[k] ELSE Glue[k - 1] \o <<" ">> \o captions[k]
  IN  Glue[last]

\* the first pass, 138-149, on segment i
ExactMatch(captions, i, normalizedQuery, queryType) ==
  IF queryType = "word"
  THEN WordRegexTest(ToLowerCaseString(captions[i + 1]), normalizedQuery)
  ELSE Includes(ToLowerCaseString(captions[i + 1]), normalizedQuery)

\* the second pass, 157-160, or the third, 169-171, on segment i
FuzzyMatch(captions, i, normalizedQuery, queryType) ==
  IF queryType = "sentence"
  THEN PhraseMatchWithVariations(ContextText(captions, i), normalizedQuery)
  ELSE Includes(ToLowerCaseString(captions[i + 1]), normalizedQuery)

\* for (let i = 0; i < segments.length; i++) if (...) return i: the index
\* returned by the loop from i on, -1 when it runs out
RECURSIVE ExactPass(_, _, _, _)
ExactPass(captions, i, normalizedQuery, queryType) ==
  IF i >= Len(captions) THEN -1
  ELSE IF ExactMatch(captions, i, normalizedQuery, queryType) THEN i
  ELSE ExactPass(captions, i + 1, normalizedQuery, queryType)

RECURSIVE FuzzyPass(_, _, _, _)
FuzzyPass(captions, i, normalizedQuery, queryType) ==
  IF i >= Len(captions) THEN -1
  ELSE IF FuzzyMatch(captions, i, normalizedQuery, queryType) THEN i
  ELSE FuzzyPass(captions, i + 1, normalizedQuery, queryType)

\* findMatchingSegment with the fuzzy pass run before the exact one
FindMatchingSegmentFuzzyFirst(captions, query, queryType) ==
  LET normalizedQuery == ToLowerCaseString(query)
      fuzzy == FuzzyPass(captions, 0, normalizedQuery, queryType)
  IN  IF fuzzy # -1 THEN fuzzy
      ELSE ExactPass(captions, 0, normalizedQuery, queryType)

\* findMatchingSegment 126-178
FindMatchingSegment(captions, query, queryType) ==
  LET normalizedQuery == ToLowerCaseString(query)
      exact == ExactPass(captions, 0, normalizedQuery, queryType)
  IN  IF exact # -1 THEN exact
      ELSE FuzzyPass(captions, 0, normalizedQuery, queryType)

\* the caption texts and the queries of SpecMatch
MatchTexts ==
  {<<"a", "t">>, <<"a">>, <<"t", "e", "d">>, <<"A", "t", " ", "a">>,
   <<"a", "t", "e", "d">>, <<"a", " ", "t">>}

MatchQueries == {<<"a", "t">>, <<"a">>, <<"a", " ", "t">>}

MatchCaptions == UNION {[1..n -> MatchTexts] : n \in 0..MaxMatchSegments}

\* processJob 186: findMatchingSegment(captions, normalizedQuery, queryType)
FindMatchingSegmentCall(captions, query) ==
  /\ matchCall.pc = "none"
  /\ LET queryType == NormalizeQuery(query).type
     IN  matchCall' = [pc |-> "returned", captions |-> captions, query |-> query,
                       queryType |-> queryType,
                       index |-> FindMatchingSegment(captions, query, queryType)]
  /\ UNCHANGED besidesMatch

MatchCallForgotten ==
  /\ matchCall.pc = "returned"
  /\ matchCall' = NoMatchCall
  /\ UNCHANGED besidesMatch

InitMatch ==
  /\ StreamAtRest
  /\ JobsAtRest
  /\ jobs = [id \in JobIds |-> NoJob]
  /\ OthersAtRest

NextMatch ==
  \/ \E captions \in MatchCaptions, query \in MatchQueries :
       FindMatchingSegmentCall(captions, query)
  \/ MatchCallForgotten

SpecMatch == InitMatch /\ [][NextMatch]_vars

\* the indices of the segments that match exactly, and of those the fallback
\* pass of the kind accepts
ExactIndices ==
  {i \in 0..(Len(matchCall.captions) - 1) :
     ExactMatch(matchCall.captions, i, ToLowerCaseString(matchCall.query),
                matchCall.queryType)}

FuzzyIndices ==
  {i \in 0..(Len(matchCall.captions) - 1) :
     FuzzyMatch(matchCall.captions, i, ToLowerCaseString(matchCall.query),
                matchCall.queryType)}

Lowest(indices) == CHOOSE i \in indices : \A j \in indices : i <= j

\* C36: findMatchingSegment returns the lowest index of an exactly matching
\* segment when there is one, otherwise the first index the fallback pass of
\* the kind accepts, and -1 exactly when no pass matches.
LowestExactElseFallback ==
  matchCall.pc = "returned" =>
    matchCall.index = IF ExactIndices # {} THEN Lowest(ExactIndices)
                      ELSE IF FuzzyIndices # {} THEN Lowest(FuzzyIndices)
                      ELSE -1

\* an exact match was returned although the fallback pass accepts an earlier segment
ExactReturnedPastFuzzy ==
  /\ matchCall.pc = "returned"
  /\ ExactIndices # {}
  /\ \E i \in FuzzyIndices : i < matchCall.index
\* ---- generateArtificialChunks ----------------------------------------------------------------
\* A text is a sequence of characters; text[i] of the code is place i + 1.

breakChars == {" ", ",", ".", "}", "]", "\n"}

\* for (let i = endIndex; i > currentIndex + chunkSize * 0.5; i--): the
\* places the loop looks at, and bestBreakIndex, -1 when none of them breaks
BestBreakIndex(text, currentIndex, endIndex) ==
  LET breaks == {i \in (currentIndex + chunkSize \div 2 + 1)..endIndex :
                   text[i + 1] \in breakChars}
  IN  IF breaks = {} THEN -1
      ELSE (CHOOSE i \in breaks : \A j \in breaks : j <= i) + 1

\* the end of the chunk that starts at currentIndex, 185-203
EndIndex(text, currentIndex) ==
  LET endIndex == Min2(currentIndex + chunkSize, Len(text))
  IN  IF endIndex < Len(text)
      THEN LET bestBreakIndex == BestBreakIndex(text, currentIndex, endIndex)
           IN  IF bestBreakIndex > 0 THEN bestBreakIndex ELSE endIndex
      ELSE endIndex

\* generateArtificialChunks 180-209: the chunks pushed from currentIndex on
RECURSIVE ChunksFrom(_, _)
ChunksFrom(text, currentIndex) ==
  IF currentIndex < Len(text)
  THEN LET endIndex == EndIndex(text, currentIndex)
       IN  <<SubSeq(text, currentIndex + 1, endIndex)>> \o ChunksFrom(text, endIndex)
  ELSE <<>>

GenerateArtificialChunks(text) == ChunksFrom(text, 0)

\* a text of n characters with a breaking character at place breakAt (none: 0)
TextWithBreak(n, breakAt) ==
  [k \in 1..n |-> IF k = breakAt THEN " " ELSE "x"]

\* streamCachedResponse 126: generateArtificialChunks(fullResponse)
GenerateArtificialChunksCall(text) ==
  /\ chunking.pc = "none"
  /\ chunking' = [pc |-> "returned", text |-> text,
                  chunks |-> GenerateArtificialChunks(text)]
  /\ UNCHANGED besidesChunking

ChunkingForgotten ==
  /\ chunking.pc = "returned"
  /\ chunking' = NoChunking
  /\ UNCHANGED besidesChunking

InitArtificial ==
  /\ StreamAtRest
  /\ JobsAtRest
  /\ jobs = [id \in JobIds |-> NoJob]
  /\ OthersAtRest

NextArtificial ==
  \/ \E n \in 0..MaxTextLen : \E breakAt \in 0..n :
       GenerateArtificialChunksCall(TextWithBreak(n, breakAt))
  \/ ChunkingForgotten

SpecArtificial == InitArtificial /\ [][NextArtificial]_vars

\* the chunks put together in order
Concatenation(chunks) ==
  LET Glue[k \in 0..Len(chunks)] == IF k = 0 THEN <<>> ELSE Glue[k - 1] \o chunks[k]
  IN  Glue[Len(chunks)]

\* the chunks are non-empty, at most chunkSize + 1 characters long, and their
\* concatenation is the text
ChunksCoverText ==
  chunking.pc = "returned" =>
    /\ \A k \in DOMAIN chunking.chunks :
         Len(chunking.chunks[k]) \in 1..(chunkSize + 1)
    /\ Concatenation(chunking.chunks) = chunking.text

\* C38: every chunk generateArtificialChunks returns is non-empty and at most
\* 100 characters long, and the chunks concatenated in order are the text.
ChunksWithinSize ==
  chunking.pc = "returned" =>
    /\ \A k \in DOMAIN chunking.chunks :
         Len(chunking.chunks[k]) \in 1..chunkSize
    /\ Concatenation(chunking.chunks) = chunking.text
\* ---- analyzeSentence, the non-streaming analysis ---------------------------------------------
\* The calls are for one fingerprint; every await of the function is a step.

AnalyzeCallIds == 1..MaxAnalyzeCalls

\* 45-58: generateCacheKey and findAnalysisByHash
AnalyzeLooksUp(c) ==
  /\ analyzeCalls[c].pc = "new"
  /\ IF c = 1 THEN TRUE ELSE analyzeCalls[c - 1].pc # "new"
  /\ analyzeCalls' = [analyzeCalls EXCEPT ![c].pc =
                        IF analysisRows # <<>> THEN "hit" ELSE "claude"]
  /\ UNCHANGED analysisRows
  /\ UNCHANGED besidesAnalyze

\* 59-75: incrementAccessCount, logAnalysisRequest, return cached
AnalyzeHitReturns(c) ==
  /\ analyzeCalls[c].pc = "hit"
  /\ analysisRows' = [k \in DOMAIN analysisRows |-> analysisRows[k] + 1]
  /\ analyzeCalls' = [analyzeCalls EXCEPT ![c].pc = "returned"]
  /\ UNCHANGED besidesAnalyze

\* 80-88: analyzeSentenceWithClaude returns the analysis, or throws
AnalyzeClaudeAnswers(c, ok) ==
  /\ analyzeCalls[c].pc = "claude"
  /\ analyzeCalls' = [analyzeCalls EXCEPT ![c] =
                        IF ok THEN [pc |-> "insert", claudeReturned |-> TRUE]
                        ELSE [pc |-> "thrown", claudeReturned |-> FALSE]]
  /\ UNCHANGED analysisRows
  /\ UNCHANGED besidesAnalyze

\* 90-119: insertSentenceAnalysis, logAnalysisRequest, return analysis; an
\* INSERT that throws goes to the catch block 121-133, which logs and rethrows
AnalyzeInserts(c) ==
  /\ analyzeCalls[c].pc = "insert"
  /\ LET ins == InsertSentenceAnalysis(analysisRows)
     IN  /\ analysisRows' = ins.rows
         /\ analyzeCalls' = [analyzeCalls EXCEPT ![c].pc =
                               IF ins.ok THEN "returned" ELSE "thrown"]
  /\ UNCHANGED besidesAnalyze

InitAnalyze ==
  /\ StreamAtRest
  /\ JobsAtRest
  /\ jobs = [id \in JobIds |-> NoJob]
  /\ OthersAtRest

NextAnalyze ==
  \/ \E c \in AnalyzeCallIds : AnalyzeLooksUp(c)
  \/ \E c \in AnalyzeCallIds : AnalyzeHitReturns(c)
  \/ \E c \in AnalyzeCallIds, ok \in BOOLEAN : AnalyzeClaudeAnswers(c, ok)
  \/ \E c \in AnalyzeCallIds : AnalyzeInserts(c)

SpecAnalyze == InitAnalyze /\ [][NextAnalyze]_vars

\* at most one record is stored for the fingerprint
OneAnalysisRecord == Len(analysisRows) <= 1

\* C40: concurrent analyzeSentence calls for one uncached fingerprint whose
\* upstream calls succeeded all return an analysis, none throws because
\* another stored the record first, and one record exists afterwards.
ConcurrentAnalysesAllReturn ==
  /\ OneAnalysisRecord
  /\ \A c \in AnalyzeCallIds :
       analyzeCalls[c].claudeReturned => analyzeCalls[c].pc # "thrown"
  /\ (\E c \in AnalyzeCallIds : analyzeCalls[c].pc = "returned") => Len(analysisRows) = 1
====
